---------------------------- MODULE Spec2Model ----------------------------
(***************************************************************************)
(* Model of the recommendation cache-and-safety pipeline of the pharmacy   *)
(* recommendation system: CacheManager (LRU + TTL), ClaudeClient           *)
(* (_generate_cart_hash, _call_api, _filter_prescription_products,         *)
(* get_recommendations) and the products table the filter queries.         *)
(*                                                                         *)
(* Text is modelled as a sequence of one-character strings, so that        *)
(* str.lower(), the substring test `in`, re.search and SQL LIKE are        *)
(* computed character by character as the code computes them.              *)
(***************************************************************************)
EXTENDS Integers, Sequences, FiniteSets, TLC

VARIABLES
    cache,                  \* CacheManager.cache: OrderedDict, oldest first
    timestamps,             \* CacheManager.timestamps: key -> time of last set
    max_size,               \* CacheManager.max_size
    ttl,                    \* CacheManager.ttl
    hits,                   \* CacheManager.hits
    misses,                 \* CacheManager.misses
    evictions,              \* CacheManager.evictions
    expirations,            \* CacheManager.expirations
    api_calls,              \* ClaudeClient.api_calls
    api_errors,             \* ClaudeClient.api_errors
    cache_hits,             \* ClaudeClient.cache_hits
    prescription_filtered,  \* ClaudeClient.prescription_filtered
    catalog,                \* rows (name, requires_prescription) of table products
    now,                    \* the clock read by time.time()
    written,                \* history: per stored key, what its last write was and when
    last,                   \* history: the last operation, its inputs and its result
    used,                   \* history: per stored key, the number of the call that last set or hit it
    returned,               \* history: the gets since the last reset_stats, by what they returned
    results,                \* the result dicts made by get_recommendations in threads, by call number
    lock,                   \* CacheManager.lock: the thread that holds it, or "free"
    threads                 \* per thread, where it is in its call and the call's locals

vars == <<cache, timestamps, max_size, ttl, hits, misses, evictions, expirations,
          api_calls, api_errors, cache_hits, prescription_filtered,
          catalog, now, written, last, used, returned, results, lock, threads>>

(***************************************************************************)
(* Bounds of the model.                                                    *)
(***************************************************************************)
MaxRecs == 2
MaxCartLen == 2
MaxSize == 2
MaxTtl == 1
MaxTime == 2
MaxCalls == 2
MaxOps == 4
MaxNegTtl == 1
MaxThreadCalls == 3
MaxWorkerCalls == 2

(***************************************************************************)
(* Characters and strings.                                                 *)
(***************************************************************************)
\* The characters the model's texts are written in, in code point order
\* (the order of Python's sorted() on str and of SQLite's BINARY collation).
Alphabet ==
    <<" ", "%",
      "0", "1", "2", "3", "4", "5", "6", "7", "8", "9",
      "A", "B", "C", "D", "E", "F", "G", "H", "I", "J", "K", "L", "M",
      "N", "O", "P", "Q", "R", "S", "T", "U", "V", "W", "X", "Y", "Z",
      "_",
      "a", "b", "c", "d", "e", "f", "g", "h", "i", "j", "k", "l", "m",
      "n", "o", "p", "q", "r", "s", "t", "u", "v", "w", "x", "y", "z",
      "Á", "É", "Í", "á", "é", "í">>

UpperAscii ==
    <<"A", "B", "C", "D", "E", "F", "G", "H", "I", "J", "K", "L", "M",
      "N", "O", "P", "Q", "R", "S", "T", "U", "V", "W", "X", "Y", "Z">>

LowerAscii ==
    <<"a", "b", "c", "d", "e", "f", "g", "h", "i", "j", "k", "l", "m",
      "n", "o", "p", "q", "r", "s", "t", "u", "v", "w", "x", "y", "z">>

UpperLatin == <<"Á", "É", "Í">>

LowerLatin == <<"á", "é", "í">>

Range(f) == {f[i] : i \in DOMAIN f}

UpperAsciiChars == Range(UpperAscii)

UpperLatinChars == Range(UpperLatin)

IndexOf(seq, c) == CHOOSE i \in DOMAIN seq : seq[i] = c

CodeOrder(c) == IndexOf(Alphabet, c)

\* str.lower() on one character: Unicode-aware.
LowerChar(c) ==
    IF c \in UpperAsciiChars THEN LowerAscii[IndexOf(UpperAscii, c)]
    ELSE IF c \in UpperLatinChars THEN LowerLatin[IndexOf(UpperLatin, c)]
    ELSE c

\* str.lower()
lower(s) == [i \in DOMAIN s |-> LowerChar(s[i])]

\* SQLite LIKE folds case for ASCII letters only.
FoldAscii(c) ==
    IF c \in UpperAsciiChars THEN LowerAscii[IndexOf(UpperAscii, c)] ELSE c

\* sub occurs in s at offset p (0-based): s[p+1 .. p+Len(sub)] = sub
OccursAt(sub, s, p) ==
    /\ p + Len(sub) <= Len(s)
    /\ \A k \in 1..Len(sub) : s[p + k] = sub[k]

\* Python: sub in s
Contains(s, sub) == \E p \in 0..(Len(s) - Len(sub)) : OccursAt(sub, s, p)

\* s < t in code point order (Python str comparison, SQLite BINARY collation)
RECURSIVE StrLess(_, _)
StrLess(s, t) ==
    IF t = <<>> THEN FALSE
    ELSE IF s = <<>> THEN TRUE
    ELSE IF Head(s) = Head(t) THEN StrLess(Tail(s), Tail(t))
    ELSE CodeOrder(Head(s)) < CodeOrder(Head(t))

(***************************************************************************)
(* re.search on the patterns of PRESCRIPTION_NAME_PATTERNS.  A pattern is  *)
(* a sequence of elements; matching carries the set of offsets at which    *)
(* the text read so far can end.                                           *)
(***************************************************************************)
Lit(s) == [t |-> "alt", alts |-> {s}, chars |-> {}]

Alt(S) == [t |-> "alt", alts |-> S, chars |-> {}]

Class(C) == [t |-> "class", alts |-> {}, chars |-> C]

DotStar == [t |-> "dotstar", alts |-> {}, chars |-> {}]

WsStar == [t |-> "wsstar", alts |-> {}, chars |-> {}]

Whitespace == {" ", "\t", "\n", "\r"}

Digits == {"0", "1", "2", "3", "4", "5", "6", "7", "8", "9"}

ReStep(e, s, P) ==
    CASE e.t = "alt" ->
           {p + Len(a) : <<p, a>> \in {x \in P \X e.alts : OccursAt(x[2], s, x[1])}}
      [] e.t = "class" ->
           {p + 1 : p \in {q \in P : q < Len(s) /\ s[q + 1] \in e.chars}}
      [] e.t = "dotstar" ->
           {q \in 0..Len(s) : \E p \in P : p <= q /\ \A k \in (p + 1)..q : s[k] # "\n"}
      [] e.t = "wsstar" ->
           {q \in 0..Len(s) : \E p \in P : p <= q /\ \A k \in (p + 1)..q : s[k] \in Whitespace}

RECURSIVE ReRun(_, _, _, _)
ReRun(pat, i, s, P) ==
    IF i > Len(pat) \/ P = {} THEN P ELSE ReRun(pat, i + 1, s, ReStep(pat[i], s, P))

\* re.search(pattern, s) is not None
re_search(pat, s) == ReRun(pat, 1, s, 0..Len(s)) # {}

(***************************************************************************)
(* The filter's fixed tables.                                              *)
(***************************************************************************)
PRESCRIPTION_ACTIVE_INGREDIENTS == {
    <<"a","m","o","x","i","c","i","l","i","n","a">>,
    <<"a","z","i","t","r","o","m","i","c","i","n","a">>,
    <<"c","i","p","r","o","f","l","o","x","a","c","i","n","o">>,
    <<"l","e","v","o","f","l","o","x","a","c","i","n","o">>,
    <<"á","c","i","d","o"," ","f","u","s","í","d","i","c","o">>,
    <<"s","u","l","f","a","d","i","a","z","i","n","a">>,
    <<"f","u","s","í","d","i","c","o">>,
    <<"a","r","g","é","n","t","i","c","a">>,
    <<"m","e","t","a","m","i","z","o","l">>,
    <<"n","o","l","o","t","i","l">>,
    <<"d","e","x","k","e","t","o","p","r","o","f","e","n","o">>,
    <<"e","n","a","n","t","y","u","m">>,
    <<"d","i","c","l","o","f","e","n","a","c","o">>,
    <<"v","o","l","t","a","d","o","l">>,
    <<"c","o","d","e","í","n","a">>,
    <<"t","r","a","m","a","d","o","l">>,
    <<"f","e","n","t","a","n","i","l","o">>,
    <<"c","o","d","e","i","n","a">>,
    <<"m","e","t","o","c","l","o","p","r","a","m","i","d","a">>,
    <<"p","r","i","m","p","e","r","a","n">>,
    <<"d","o","m","p","e","r","i","d","o","n","a">>,
    <<"d","e","s","l","o","r","a","t","a","d","i","n","a">>,
    <<"a","e","r","i","u","s">>,
    <<"b","i","l","a","s","t","i","n","a">>,
    <<"b","i","l","a","x","t","e","n">>,
    <<"b","r","o","m","h","e","x","i","n","a">>,
    <<"c","l","o","p","e","r","a","s","t","i","n","a">>,
    <<"d","e","x","t","r","o","m","e","t","o","r","f","a","n","o">>,
    <<"f","l","u","r","b","i","p","r","o","f","e","n","o">>,
    <<"n","a","f","a","z","o","l","i","n","a">>}

omeprazol == <<"o","m","e","p","r","a","z","o","l">>

ibuprofeno == <<"i","b","u","p","r","o","f","e","n","o">>

loperamida == <<"l","o","p","e","r","a","m","i","d","a">>

diclofenaco == <<"d","i","c","l","o","f","e","n","a","c","o">>

PackWords == {<<"c","á","p","s","u","l","a","s">>,
              <<"c","o","m","p","r","i","m","i","d","o","s">>}

mg == <<"m","g">>

PRESCRIPTION_NAME_PATTERNS == {
    \* omeprazol.*2[4-9].*(?:cápsulas|comprimidos)
    <<Lit(omeprazol), DotStar, Lit(<<"2">>), Class({"4","5","6","7","8","9"}),
      DotStar, Alt(PackWords)>>,
    \* omeprazol.*3\d.*(?:cápsulas|comprimidos)
    <<Lit(omeprazol), DotStar, Lit(<<"3">>), Class(Digits), DotStar, Alt(PackWords)>>,
    \* ibuprofeno.*(600|800)\s*mg
    <<Lit(ibuprofeno), DotStar, Alt({<<"6","0","0">>, <<"8","0","0">>}), WsStar, Lit(mg)>>,
    \* loperamida.*[2-9]\s*mg
    <<Lit(loperamida), DotStar, Class({"2","3","4","5","6","7","8","9"}), WsStar, Lit(mg)>>,
    \* diclofenaco.*(?:75|100)\s*mg
    <<Lit(diclofenaco), DotStar, Alt({<<"7","5">>, <<"1","0","0">>}), WsStar, Lit(mg)>>}

(***************************************************************************)
(* The products table and the layer 3 query.                               *)
(***************************************************************************)
\* SQLite `text LIKE pat`: '%' matches any run of characters, '_' any one
\* character, every other character itself with ASCII letters case-folded.
RECURSIVE like(_, _)
like(text, pat) ==
    IF pat = <<>> THEN text = <<>>
    ELSE IF Head(pat) = "%"
         THEN like(text, Tail(pat)) \/ (text # <<>> /\ like(Tail(text), pat))
    ELSE /\ text # <<>>
         /\ (Head(pat) = "_" \/ FoldAscii(Head(pat)) = FoldAscii(Head(text)))
         /\ like(Tail(text), Tail(pat))

\* WHERE name LIKE ? OR ? LIKE '%' || name || '%'   with (f"%{product_name}%", product_name)
WhereMatches(name, product_name) ==
    \/ like(name, <<"%">> \o product_name \o <<"%">>)
    \/ like(product_name, <<"%">> \o name \o <<"%">>)

\* An ordering by LENGTH(name) ASC, name ASC alone
OrderedByLengthOnly(a, b) ==
    \/ Len(a.name) < Len(b.name)
    \/ Len(a.name) = Len(b.name) /\ StrLess(a.name, b.name)

\* ORDER BY requires_prescription DESC, LENGTH(name) ASC, name ASC
OrderedBefore(a, b) ==
    \/ a.requires_prescription > b.requires_prescription
    \/ /\ a.requires_prescription = b.requires_prescription
       /\ \/ Len(a.name) < Len(b.name)
          \/ Len(a.name) = Len(b.name) /\ StrLess(a.name, b.name)

\* cursor.execute(...); cursor.fetchone(): <<row>>, or <<>> for None
fetchone(cat, product_name) ==
    LET rows == {r \in cat : WhereMatches(r.name, product_name)}
    IN IF rows = {} THEN <<>>
       ELSE <<CHOOSE r \in rows : \A o \in rows \ {r} : OrderedBefore(r, o)>>

\* Values that are no str: None, and an int.  A str is a sequence of
\* characters, so neither equals any str.
None == <<"None">>

Int42 == <<"42">>

\* type(v) of the value of a name, category, active_ingredient or product_name
type_of(v) == IF v = None THEN "NoneType" ELSE IF v = Int42 THEN "int" ELSE "str"

(***************************************************************************)
(* ClaudeClient._filter_prescription_products                              *)
(***************************************************************************)
\* An element of the parsed recommendations list: a dict with the keys it
\* carries, its product_name and priority.  An element that is no dict has
\* the type the JSON value has in Python ("int", "NoneType", "list", "str"),
\* and as keys the names n for which `n in element` holds.
Rec(name) ==
    [type |-> "dict",
     keys |-> {"product_name", "category", "reason", "priority"},
     product_name |-> name, priority |-> "high"]

\* rec.get('product_name', '')
get_product_name(rec) ==
    IF "product_name" \in rec.keys THEN rec.product_name ELSE <<>>

\* LAYER 1: for ingredient in PRESCRIPTION_ACTIVE_INGREDIENTS: if ingredient in product_lower
blocked_by_ingredient(product_lower) ==
    \E ingredient \in PRESCRIPTION_ACTIVE_INGREDIENTS : Contains(product_lower, ingredient)

\* LAYER 2: for pattern in PRESCRIPTION_NAME_PATTERNS: if re.search(pattern, product_lower)
blocked_by_pattern(product_lower) ==
    \E pattern \in PRESCRIPTION_NAME_PATTERNS : re_search(pattern, product_lower)

\* not product_name
falsy(product_name) == product_name = <<>> \/ product_name = None

\* One turn of the loop over the recommendations.  layer: the layer that
\* decided (0: the empty-name skip); counted: the increment of
\* prescription_filtered; raised: product_name.lower() or the catalog query
\* raised.
Decision(layer, accept, counted, raised) ==
    [layer |-> layer, accept |-> accept, counted |-> counted, raised |-> raised]

\* A loop turn that goes from the empty-name skip straight to the dose patterns
filter_one_without_layer1(rec, cat, db) ==
    LET product_name == get_product_name(rec)
        product_lower == lower(product_name)
    IN IF falsy(product_name) THEN Decision(0, FALSE, 0, FALSE)
       ELSE IF type_of(product_name) # "str" THEN Decision(1, FALSE, 0, TRUE)
       ELSE IF blocked_by_pattern(product_lower) THEN Decision(2, FALSE, 1, FALSE)
       ELSE IF db = "query_error" THEN Decision(3, FALSE, 0, TRUE)
       ELSE LET result == fetchone(cat, product_name)
            IN IF result # <<>>
               THEN IF result[1].requires_prescription = 1
                    THEN Decision(3, FALSE, 1, FALSE)
                    ELSE Decision(3, TRUE, 0, FALSE)
               ELSE Decision(3, FALSE, 1, FALSE)

filter_one(rec, cat, db) ==
    LET product_name == get_product_name(rec)
        product_lower == lower(product_name)
    IN IF falsy(product_name) THEN Decision(0, FALSE, 0, FALSE)
       ELSE IF type_of(product_name) # "str" THEN Decision(1, FALSE, 0, TRUE)
       ELSE IF blocked_by_ingredient(product_lower) THEN Decision(1, FALSE, 1, FALSE)
       ELSE IF blocked_by_pattern(product_lower) THEN Decision(2, FALSE, 1, FALSE)
       ELSE IF db = "query_error" THEN Decision(3, FALSE, 0, TRUE)
       ELSE LET result == fetchone(cat, product_name)
            IN IF result # <<>>
               THEN IF result[1].requires_prescription = 1
                    THEN Decision(3, FALSE, 1, FALSE)
                    ELSE Decision(3, TRUE, 0, FALSE)
               ELSE Decision(3, FALSE, 1, FALSE)

\* The loop: acc carries the filtered list, the increments of
\* prescription_filtered and the decisions taken; an exception ends it.
RECURSIVE filter_loop(_, _, _, _, _)
filter_loop(recommendations, i, cat, db, acc) ==
    IF i > Len(recommendations) \/ acc.raised THEN acc
    ELSE LET rec == recommendations[i]
             d == filter_one(rec, cat, db)
         IN filter_loop(recommendations, i + 1, cat, db,
                [raised |-> d.raised,
                 filtered |-> IF d.accept THEN Append(acc.filtered, rec) ELSE acc.filtered,
                 counted |-> acc.counted + d.counted,
                 decisions |-> Append(acc.decisions, d)])

\* db: "ok", "connect_error" (get_connection raises) or "query_error"
\* (cursor.execute raises).
_filter_prescription_products(recommendations, cat, db) ==
    LET empty == [raised |-> FALSE, filtered |-> <<>>, counted |-> 0, decisions |-> <<>>]
    IN IF recommendations = <<>> THEN empty
       ELSE IF db = "connect_error" THEN [empty EXCEPT !.raised = TRUE]
       ELSE filter_loop(recommendations, 1, cat, db, empty)

(***************************************************************************)
(* Texts of the model: product names of catalog rows and recommendations.  *)
(***************************************************************************)
Almax == <<"A","l","m","a","x">>

AlmaxForte == <<"A","l","m","a","x"," ","F","o","r","t","e">>

ALMAXforte1g == <<"A","L","M","A","X"," ","f","o","r","t","e"," ","1","g">>

Tramadol == <<"T","r","a","m","a","d","o","l">>

Ibuprofeno600mg == <<"I","b","u","p","r","o","f","e","n","o"," ","6","0","0","m","g">>

Aloe100PctGel == <<"A","l","o","e"," ","1","0","0","%"," ","g","e","l">>

Aloe100mlGel == <<"A","l","o","e"," ","1","0","0","m","l"," ","g","e","l">>

CatalogNames == {Almax, AlmaxForte, Tramadol, Aloe100mlGel}

RecNames == {<<>>, Int42, Almax, ALMAXforte1g, Tramadol, Ibuprofeno600mg, Aloe100PctGel}

\* The rows a products table can hold: name and requires_prescription (0 or 1).
Rows == [name : CatalogNames, requires_prescription : {0, 1}]

\* A products table: at most one row per name.
Catalogs == {c \in SUBSET Rows : \A a, b \in c : a.name = b.name => a = b}

\* The recommendation dicts: one per name, and one without product_name.
Recs == {Rec(n) : n \in RecNames} \cup {[Rec(<<>>) EXCEPT !.keys = @ \ {"product_name"}]}

SeqsUpTo(S, n) == UNION {[1..k -> S] : k \in 0..n}

RecLists == SeqsUpTo(Recs, MaxRecs)

(***************************************************************************)
(* ClaudeClient._generate_cart_hash                                        *)
(***************************************************************************)
\* A cart item dict: the keys it carries and their values.  The value under
\* 'price' is given by its type, price_type ("number" for an int or a float,
\* "str", "NoneType"), and by the number it is or spells (0 for None).
Item(name, category, active_ingredient, price) ==
    [keys |-> {"name", "category", "active_ingredient", "price"},
     name |-> name, category |-> category,
     active_ingredient |-> active_ingredient, price |-> price,
     price_type |-> "number"]

\* item.get(field, '')
item_get(item, field) ==
    IF field \in item.keys
    THEN CASE field = "name" -> item.name
           [] field = "category" -> item.category
           [] field = "active_ingredient" -> item.active_ingredient
    ELSE <<>>

\* s <= t in code point order
StrLeq(s, t) == s = t \/ StrLess(s, t)

\* The insertion of x into the sorted list (a turn of the sort below)
RECURSIVE insert_sorted(_, _)
insert_sorted(x, xs) ==
    IF xs = <<>> THEN <<x>>
    ELSE IF StrLeq(x, Head(xs)) THEN <<x>> \o xs
    ELSE <<Head(xs)>> \o insert_sorted(x, Tail(xs))

\* sorted(list of str)
RECURSIVE sorted(_)
sorted(xs) == IF xs = <<>> THEN <<>> ELSE insert_sorted(Head(xs), sorted(Tail(xs)))

\* [item.get(field, '') for item in cart_items]
field_list(cart_items, field) == [i \in DOMAIN cart_items |-> item_get(cart_items[i], field)]

\* sorted(xs) raises TypeError: with two or more elements every element is
\* compared with another, and `<` is defined neither for None nor between a
\* str and an int.
sort_raises(xs) ==
    /\ Len(xs) >= 2
    /\ \/ \E i \in DOMAIN xs : type_of(xs[i]) = "NoneType"
       \/ \E i, j \in DOMAIN xs : type_of(xs[i]) # type_of(xs[j])

\* _generate_cart_hash raises: one of its three sorted(...) does (json.dumps
\* takes None and int values)
hash_raises(cart_items) ==
    \E field \in {"name", "category", "active_ingredient"} :
        sort_raises(field_list(cart_items, field))

\* PromptBuilder.build_recommendation_prompt raises: f"{price:.2f}" for a
\* price that is None (TypeError) or a str (ValueError), and
\* ', '.join(sorted(...)) for a category or active ingredient that is no str
\* (TypeError); a missing key takes a default that is fine, and a name of
\* any type is formatted.
prompt_raises(cart_items) ==
    \E i \in DOMAIN cart_items :
        LET item == cart_items[i]
        IN \/ "price" \in item.keys /\ item.price_type # "number"
           \/ "category" \in item.keys /\ type_of(item.category) # "str"
           \/ "active_ingredient" \in item.keys /\ type_of(item.active_ingredient) # "str"

\* The three lists in cart order, unsorted
hash_input_unsorted(cart_items) ==
    [categories |-> field_list(cart_items, "category"),
     ingredients |-> field_list(cart_items, "active_ingredient"),
     names |-> field_list(cart_items, "name")]

\* The sorted names alone
hash_input_names_only(cart_items) ==
    [categories |-> <<>>, ingredients |-> <<>>,
     names |-> sorted(field_list(cart_items, "name"))]

\* json.dumps({...}, sort_keys=True): the canonical text, one-to-one with the
\* three lists it serialises.
hash_input(cart_items) ==
    [categories |-> sorted(field_list(cart_items, "category")),
     ingredients |-> sorted(field_list(cart_items, "active_ingredient")),
     names |-> sorted(field_list(cart_items, "name"))]

\* hashlib.md5(text).hexdigest(): the digest, taken as one-to-one on the text.
md5(text) == [md5 |-> text]

_generate_cart_hash(cart_items) == md5(hash_input(cart_items))

(***************************************************************************)
(* CacheManager.  An operation takes the manager's fields as a record cm   *)
(* (cache, timestamps, max_size, ttl and the four counters) and the clock  *)
(* reading t, and gives the fields after it, with what it returns.         *)
(* cache is the OrderedDict as the sequence of its (key, value) entries,   *)
(* least recently used first.                                              *)
(***************************************************************************)
Keys(c) == {c[i].key : i \in DOMAIN c}

\* self.cache[key]
ValueOf(c, key) == c[CHOOSE i \in DOMAIN c : c[i].key = key].value

\* del self.cache[key]
Without(c, key) == SelectSeq(c, LAMBDA e : e.key # key)

\* del self.timestamps[key]
DropKey(f, key) == [k \in (DOMAIN f) \ {key} |-> f[k]]

\* A removal that leaves the key's timestamp behind
_remove_key_cache_only(cm, key) ==
    [cm EXCEPT !.cache = IF key \in Keys(cm.cache) THEN Without(@, key) ELSE @]

\* CacheManager._remove_key
_remove_key(cm, key) ==
    [cm EXCEPT !.cache = IF key \in Keys(cm.cache) THEN Without(@, key) ELSE @,
               !.timestamps = IF key \in DOMAIN @ THEN DropKey(@, key) ELSE @]

\* An expiry test that takes an entry of age ttl as expired
is_expired_at_ttl(cm, key, t) ==
    LET timestamp == IF key \in DOMAIN cm.timestamps THEN cm.timestamps[key] ELSE 0
    IN t - timestamp >= cm.ttl

\* An expiry test that finds no entry expired
is_expired_never(cm, key, t) == FALSE

\* time.time() - timestamp > self.ttl
is_expired(cm, key, t) ==
    LET timestamp == IF key \in DOMAIN cm.timestamps THEN cm.timestamps[key] ELSE 0
    IN t - timestamp > cm.ttl

\* A hit that leaves the order as it is
move_to_end_nowhere(c, key) == c

\* self.cache.move_to_end(key)
move_to_end(c, key) == Append(Without(c, key), [key |-> key, value |-> ValueOf(c, key)])

\* A get that does not count the miss when it removes an expired entry
get_expiry_uncounted(cm, key, t) ==
    IF key \notin Keys(cm.cache)
    THEN [cm |-> [cm EXCEPT !.misses = @ + 1], ret |-> <<>>]
    ELSE IF is_expired(cm, key, t)
    THEN [cm |-> [_remove_key(cm, key) EXCEPT !.expirations = @ + 1], ret |-> <<>>]
    ELSE [cm |-> [cm EXCEPT !.cache = move_to_end(@, key), !.hits = @ + 1],
          ret |-> <<ValueOf(cm.cache, key)>>]

\* A get whose hit starts the entry's age afresh
get_refreshing(cm, key, t) ==
    IF key \notin Keys(cm.cache)
    THEN [cm |-> [cm EXCEPT !.misses = @ + 1], ret |-> <<>>]
    ELSE IF is_expired(cm, key, t)
    THEN [cm |-> [_remove_key(cm, key) EXCEPT !.expirations = @ + 1, !.misses = @ + 1],
          ret |-> <<>>]
    ELSE [cm |-> [cm EXCEPT !.cache = move_to_end(@, key), !.hits = @ + 1,
                            !.timestamps[key] = t],
          ret |-> <<ValueOf(cm.cache, key)>>]

\* CacheManager.get: ret is <<value>>, or <<>> for None
get(cm, key, t) ==
    IF key \notin Keys(cm.cache)
    THEN [cm |-> [cm EXCEPT !.misses = @ + 1], ret |-> <<>>]
    ELSE IF is_expired(cm, key, t)
    THEN [cm |-> [_remove_key(cm, key) EXCEPT !.expirations = @ + 1, !.misses = @ + 1],
          ret |-> <<>>]
    ELSE [cm |-> [cm EXCEPT !.cache = move_to_end(@, key), !.hits = @ + 1],
          ret |-> <<ValueOf(cm.cache, key)>>]

\* A set that never evicts
set_without_eviction(cm, key, value, t) ==
    LET removed == IF key \in Keys(cm.cache)
                   THEN [cm EXCEPT !.cache = Without(@, key),
                                   !.timestamps = DropKey(@, key)]
                   ELSE cm
    IN [cm |-> [removed EXCEPT
                    !.cache = Append(@, [key |-> key, value |-> value]),
                    !.timestamps = [k \in (DOMAIN @) \cup {key} |->
                                       IF k = key THEN t ELSE @[k]]],
        raised |-> FALSE]

\* A set that tests the capacity before it removes the key's old entry
set_evicting_first(cm, key, value, t) ==
    LET full == Len(cm.cache) >= cm.max_size
        evicted == IF full /\ cm.cache # <<>>
                   THEN [_remove_key(cm, Head(cm.cache).key) EXCEPT !.evictions = @ + 1]
                   ELSE cm
        removed == _remove_key(evicted, key)
    IN IF full /\ cm.cache = <<>>
       THEN [cm |-> cm, raised |-> TRUE]
       ELSE [cm |-> [removed EXCEPT
                        !.cache = Append(@, [key |-> key, value |-> value]),
                        !.timestamps = [k \in (DOMAIN @) \cup {key} |->
                                           IF k = key THEN t ELSE @[k]]],
             raised |-> FALSE]

\* A set that sweeps the expired entries before it tests the capacity
set_sweeping(cm, key, value, t) ==
    LET removed == IF key \in Keys(cm.cache)
                   THEN [cm EXCEPT !.cache = Without(@, key),
                                   !.timestamps = DropKey(@, key)]
                   ELSE cm
        expired_keys == {k \in DOMAIN removed.timestamps :
                            t - removed.timestamps[k] > removed.ttl}
        swept == [removed EXCEPT
                    !.cache = SelectSeq(@, LAMBDA e : e.key \notin expired_keys),
                    !.timestamps = [k \in (DOMAIN @) \ expired_keys |-> @[k]]]
        full == Len(swept.cache) >= swept.max_size
        evicted == IF full /\ swept.cache # <<>>
                   THEN [_remove_key(swept, Head(swept.cache).key)
                            EXCEPT !.evictions = @ + 1]
                   ELSE swept
    IN IF full /\ swept.cache = <<>>
       THEN [cm |-> swept, raised |-> TRUE]
       ELSE [cm |-> [evicted EXCEPT
                        !.cache = Append(@, [key |-> key, value |-> value]),
                        !.timestamps = [k \in (DOMAIN @) \cup {key} |->
                                           IF k = key THEN t ELSE @[k]]],
             raised |-> FALSE]

\* CacheManager.set: raised when next(iter(self.cache)) finds the cache empty
set(cm, key, value, t) ==
    LET removed == IF key \in Keys(cm.cache)
                   THEN [cm EXCEPT !.cache = Without(@, key),
                                   !.timestamps = DropKey(@, key)]
                   ELSE cm
        full == Len(removed.cache) >= removed.max_size
        evicted == IF full
                   THEN [_remove_key(removed, Head(removed.cache).key)
                            EXCEPT !.evictions = @ + 1]
                   ELSE removed
    IN IF full /\ removed.cache = <<>>
       THEN [cm |-> removed, raised |-> TRUE]
       ELSE [cm |-> [evicted EXCEPT
                        !.cache = Append(@, [key |-> key, value |-> value]),
                        !.timestamps = [k \in (DOMAIN @) \cup {key} |->
                                           IF k = key THEN t ELSE @[k]]],
             raised |-> FALSE]

\* A clear that starts the statistics afresh as well
clear_with_stats(cm) ==
    [cm EXCEPT !.cache = <<>>, !.timestamps = <<>>,
               !.hits = 0, !.misses = 0, !.evictions = 0, !.expirations = 0]

\* CacheManager.clear
clear(cm) == [cm EXCEPT !.cache = <<>>, !.timestamps = <<>>]

\* A delete that leaves the key's timestamp behind
delete_keeping_timestamp(cm, key) ==
    IF key \in Keys(cm.cache)
    THEN [cm |-> [cm EXCEPT !.cache = Without(@, key)], ret |-> TRUE]
    ELSE [cm |-> cm, ret |-> FALSE]

\* CacheManager.delete: ret is the bool returned
delete(cm, key) ==
    IF key \in Keys(cm.cache)
    THEN [cm |-> _remove_key(cm, key), ret |-> TRUE]
    ELSE [cm |-> cm, ret |-> FALSE]

\* A sweep that takes an entry of age ttl as expired
cleanup_expired_at_ttl(cm, t) ==
    LET expired_keys == {k \in DOMAIN cm.timestamps : t - cm.timestamps[k] >= cm.ttl}
    IN [cm |-> [cm EXCEPT
                   !.cache = SelectSeq(@, LAMBDA e : e.key \notin expired_keys),
                   !.timestamps = [k \in (DOMAIN @) \ expired_keys |-> @[k]],
                   !.expirations = @ + Cardinality(expired_keys)],
        ret |-> Cardinality(expired_keys)]

\* CacheManager.cleanup_expired: ret is the number of keys removed
cleanup_expired(cm, t) ==
    LET expired_keys == {k \in DOMAIN cm.timestamps : t - cm.timestamps[k] > cm.ttl}
    IN [cm |-> [cm EXCEPT
                   !.cache = SelectSeq(@, LAMBDA e : e.key \notin expired_keys),
                   !.timestamps = [k \in (DOMAIN @) \ expired_keys |-> @[k]],
                   !.expirations = @ + Cardinality(expired_keys)],
        ret |-> Cardinality(expired_keys)]

\* CacheManager.reset_stats
reset_stats(cm) ==
    [cm EXCEPT !.hits = 0, !.misses = 0, !.evictions = 0, !.expirations = 0]

\* CacheManager.get_stats; hit_rate is kept as the pair (numerator, denominator)
\* of hits / total_requests * 100
get_stats(cm) ==
    LET total_requests == cm.hits + cm.misses
    IN [size |-> Len(cm.cache), max_size |-> cm.max_size, hits |-> cm.hits,
        misses |-> cm.misses,
        hit_rate |-> IF total_requests > 0 THEN <<cm.hits * 100, total_requests>>
                     ELSE <<0, 1>>,
        evictions |-> cm.evictions, expirations |-> cm.expirations, ttl |-> cm.ttl]

(***************************************************************************)
(* ClaudeClient._call_api                                                  *)
(***************************************************************************)
\* config.CACHE_ENABLED: the default of the environment variable
CACHE_ENABLED == TRUE

max_retries == 3

initial_backoff == 1

\* What one self.client.messages.create(...) attempt can do: return a
\* response with text, return a response whose content[0].text cannot be
\* read, or raise APITimeoutError, APIConnectionError, another APIError, or
\* any other exception.
AttemptOutcomes == {"text", "no_content", "timeout", "connection", "api_error", "exception"}

\* The loop `for attempt in range(max_retries)`; outcomes[attempt + 1] is what
\* the attempt does.  acc: the increments of api_calls and api_errors, the
\* attempts made and the backoff sleeps so far.
\* Every API error is retried.
retried_any(o) == o \in {"timeout", "connection", "api_error"}

\* except anthropic.APITimeoutError / except anthropic.APIConnectionError:
\* the attempts the loop goes on after
retried(o) == o \in {"timeout", "connection"}

\* A sleep follows every failed attempt.
sleeps_after_always(attempt) == TRUE

\* if attempt < max_retries - 1: time.sleep(backoff)
sleeps_after(attempt) == attempt < max_retries - 1

\* The loop has no last attempt.
in_range_always(attempt) == TRUE

\* for attempt in range(max_retries): the loop makes this attempt
in_range(attempt) == attempt < max_retries

\* The backoff stays as it is.
next_backoff_same(backoff) == backoff

\* backoff *= 2
next_backoff(backoff) == backoff * 2

RECURSIVE call_api_loop(_, _, _, _)
call_api_loop(outcomes, attempt, backoff, acc) ==
    IF ~in_range(attempt)
    THEN [acc EXCEPT !.api_errors = @ + 1]
    ELSE LET o == outcomes[attempt + 1]
             tried == [acc EXCEPT !.attempts = @ + 1]
         IN CASE o = "text" ->
                   [tried EXCEPT !.api_calls = @ + 1, !.returned = TRUE]
              [] o = "no_content" ->
                   [tried EXCEPT !.api_calls = @ + 1, !.api_errors = @ + 1]
              [] retried(o) ->
                   IF sleeps_after(attempt)
                   THEN call_api_loop(outcomes, attempt + 1, next_backoff(backoff),
                                      [tried EXCEPT !.sleeps = Append(@, backoff)])
                   ELSE call_api_loop(outcomes, attempt + 1, backoff, tried)
              [] OTHER ->
                   [tried EXCEPT !.api_errors = @ + 1]

\* _call_api has not been called.
NoApiCall ==
    [returned |-> FALSE, api_calls |-> 0, api_errors |-> 0,
     attempts |-> 0, sleeps |-> <<>>]

\* returned: the response text is returned (else None); api_calls and
\* api_errors: what the call adds to the counters; attempts: the
\* messages.create calls made; sleeps: the time.sleep arguments, in order
_call_api(outcomes) == call_api_loop(outcomes, 0, initial_backoff, NoApiCall)

(***************************************************************************)
(* PromptBuilder.parse_recommendations and validate_recommendations.  A    *)
(* response text is modelled by what it holds: nothing ("empty"), text     *)
(* without a JSON object ("prose"), or a JSON object ("json") with its     *)
(* top-level keys and the value of "recommendations".                      *)
(***************************************************************************)
Text(kind, keys, is_list, recommendations) ==
    [kind |-> kind, keys |-> keys, is_list |-> is_list, recommendations |-> recommendations]

EmptyText == Text("empty", {}, FALSE, <<>>)

ProseText == Text("prose", {}, FALSE, <<>>)

JsonText(recommendations) == Text("json", {"recommendations", "analysis"}, TRUE, recommendations)

\* parse_recommendations: <<data>>, or <<>> for None
parse_recommendations(response_text) ==
    IF response_text.kind = "json" /\ "recommendations" \in response_text.keys
    THEN <<response_text>>
    ELSE <<>>

required_fields == {"product_name", "category", "reason", "priority"}

valid_priorities == {"high", "medium", "low"}

\* One turn of `for idx, rec in enumerate(recommendations)`: "next" when
\* the loop goes on, "False" when it returns False, "raised" when
\* `field not in rec` (an int, a bool, None) or rec["priority"] (a list, a
\* str) raises TypeError.
validate_one(rec) ==
    IF rec.type \in {"int", "NoneType"} THEN "raised"
    ELSE IF ~(required_fields \subseteq rec.keys) THEN "False"
    ELSE IF rec.type # "dict" THEN "raised"
    ELSE IF rec.priority \notin valid_priorities THEN "False"
    ELSE "next"

\* The loop from element idx on
RECURSIVE validate_loop(_, _)
validate_loop(recommendations, idx) ==
    IF idx > Len(recommendations) THEN "True"
    ELSE LET v == validate_one(recommendations[idx])
         IN IF v = "next" THEN validate_loop(recommendations, idx + 1) ELSE v

\* What a call of validate_recommendations does: it returns "True" or
\* "False", or an exception leaves it ("raised").
validate_outcome(data) ==
    IF "recommendations" \notin data.keys THEN "False"
    ELSE IF ~data.is_list THEN "False"
    ELSE IF Len(data.recommendations) = 0 THEN "False"
    ELSE validate_loop(data.recommendations, 1)

\* validate_recommendations raises
validate_raises(data) == validate_outcome(data) = "raised"

\* Every parsed object passes.
validate_anything(data) == TRUE

\* validate_recommendations returns True
validate_recommendations(data) == validate_outcome(data) = "True"

(***************************************************************************)
(* ClaudeClient.get_recommendations                                        *)
(***************************************************************************)
\* The parsed dict left as it is
with_unfiltered(recommendations, filtered_recommendations) == recommendations

\* recommendations['recommendations'] = filtered_recommendations
with_filtered(recommendations, filtered_recommendations) ==
    [recommendations EXCEPT !.recommendations = filtered_recommendations]

\* result = {**recommendations, "source": "api", "timestamp": time.time(),
\*           "cart_hash": cart_hash}
make_result(recommendations, cart_hash, t) ==
    [recommendations |-> recommendations.recommendations,
     source |-> "api", timestamp |-> t, cart_hash |-> cart_hash]

\* cached["source"] = "cache": cached is the dict the cache holds
tag_cached(c, key) ==
    [i \in DOMAIN c |->
        IF c[i].key = key THEN [c[i] EXCEPT !.value.source = "cache"] ELSE c[i]]

\* st: the manager's fields (st.cm) and the client's four counters.
\* env: what the collaborators do during the call: env.outcomes (the
\* generation attempts), env.text (the response text) and env.db (the
\* products table: "ok", "connect_error", "query_error").
\* Gives the fields after the call, ret (<<result>>, or <<>> for None),
\* stored (<<value>>: the value passed to cache_manager.set), attempts (the
\* generation attempts made), looked_up (cache_manager.get was called),
\* api (what _call_api did) and raised (the call ended with an exception
\* instead of returning).
Outcome(st, ret, stored, attempts, looked_up) ==
    [st |-> st, ret |-> ret, stored |-> stored, attempts |-> attempts,
     looked_up |-> looked_up, api |-> NoApiCall, raised |-> FALSE]

\* An exception leaves get_recommendations
Raised(st, looked_up) == [Outcome(st, <<>>, <<>>, 0, looked_up) EXCEPT !.raised = TRUE]

\* A list without candidates goes on as a result.
nothing_left_never(filtered_recommendations) == FALSE

\* if not filtered_recommendations
nothing_left(filtered_recommendations) == filtered_recommendations = <<>>

\* The try block: from self._call_api(user_prompt) to `return result`
generate(st, cart_hash, env, cat, t, looked_up) ==
    LET api == _call_api(env.outcomes)
        s1 == [st EXCEPT !.api_calls = @ + api.api_calls,
                         !.api_errors = @ + api.api_errors]
        failed(s) == Outcome(s, <<>>, <<>>, api.attempts, looked_up)
        \* except Exception: self.api_errors += 1; return None
        caught(s, stored) ==
            Outcome([s EXCEPT !.api_errors = @ + 1], <<>>, stored, api.attempts, looked_up)
        out ==
          IF ~api.returned \/ env.text.kind = "empty" THEN failed(s1)
       ELSE LET parsed == parse_recommendations(env.text)
            IN IF parsed = <<>> THEN failed(s1)
               ELSE IF validate_raises(parsed[1]) THEN caught(s1, <<>>)
               ELSE IF ~validate_recommendations(parsed[1]) THEN failed(s1)
               ELSE LET f == _filter_prescription_products(
                                 parsed[1].recommendations, cat, env.db)
                        s2 == [s1 EXCEPT !.prescription_filtered = @ + f.counted]
                    IN IF f.raised THEN caught(s2, <<>>)
                       ELSE IF nothing_left(f.filtered) THEN failed(s2)
                       ELSE LET result == make_result(
                                    with_filtered(parsed[1], f.filtered), cart_hash, t)
                                put == set(s2.cm, cart_hash, result, t)
                            IN IF ~CACHE_ENABLED
                               THEN Outcome(s2, <<result>>, <<>>, api.attempts, looked_up)
                               ELSE IF put.raised
                               THEN caught([s2 EXCEPT !.cm = put.cm], <<result>>)
                               ELSE Outcome([s2 EXCEPT !.cm = put.cm],
                                            <<result>>, <<result>>, api.attempts, looked_up)
    IN [out EXCEPT !.api = api]

\* The lookup is made whatever force_refresh is.
looks_up_always(force_refresh) == CACHE_ENABLED

\* if config.CACHE_ENABLED and not force_refresh
looks_up(force_refresh) == CACHE_ENABLED /\ ~force_refresh

\* No cart counts as empty.
no_items_never(cart_items) == FALSE

\* if not cart_items
no_items(cart_items) == cart_items = <<>>

\* From `user_prompt = ...build_recommendation_prompt(cart_items)`, which is
\* outside the try block, to the end
prompt_and_generate(st, cart_items, cart_hash, env, cat, t, looked_up) ==
    IF prompt_raises(cart_items) THEN Raised(st, looked_up)
    ELSE generate(st, cart_hash, env, cat, t, looked_up)

get_recommendations(st, cart_items, force_refresh, env, cat, t) ==
    IF no_items(cart_items) THEN Outcome(st, <<>>, <<>>, 0, FALSE)
    ELSE IF hash_raises(cart_items) THEN Raised(st, FALSE)
    ELSE LET cart_hash == _generate_cart_hash(cart_items)
         IN IF looks_up(force_refresh)
            THEN LET g == get(st.cm, cart_hash, t)
                 IN IF g.ret # <<>>
                    THEN Outcome([st EXCEPT !.cm = [g.cm EXCEPT !.cache = tag_cached(@, cart_hash)],
                                            !.cache_hits = @ + 1],
                                 <<[g.ret[1] EXCEPT !.source = "cache"]>>, <<>>, 0, TRUE)
                    ELSE prompt_and_generate([st EXCEPT !.cm = g.cm], cart_items, cart_hash,
                                             env, cat, t, TRUE)
            ELSE prompt_and_generate(st, cart_items, cart_hash, env, cat, t, FALSE)

(***************************************************************************)
(* The state as the records the operations work on.                        *)
(***************************************************************************)
CM ==
    [cache |-> cache, timestamps |-> timestamps, max_size |-> max_size, ttl |-> ttl,
     hits |-> hits, misses |-> misses, evictions |-> evictions,
     expirations |-> expirations]

ST ==
    [cm |-> CM, api_calls |-> api_calls, api_errors |-> api_errors,
     cache_hits |-> cache_hits, prescription_filtered |-> prescription_filtered]

SetCM(cm) ==
    /\ cache' = cm.cache
    /\ timestamps' = cm.timestamps
    /\ hits' = cm.hits
    /\ misses' = cm.misses
    /\ evictions' = cm.evictions
    /\ expirations' = cm.expirations
    /\ UNCHANGED <<max_size, ttl>>

SetST(st) ==
    /\ SetCM(st.cm)
    /\ api_calls' = st.api_calls
    /\ api_errors' = st.api_errors
    /\ cache_hits' = st.cache_hits
    /\ prescription_filtered' = st.prescription_filtered

ClientUnchanged == UNCHANGED <<api_calls, api_errors, cache_hits, prescription_filtered>>

\* written, kept for the keys the cache holds
Restrict(f, S) == [k \in (DOMAIN f) \cap S |-> f[k]]

(***************************************************************************)
(* Inputs of the client specification.                                     *)
(***************************************************************************)
A == <<"A">>

B == <<"B">>

Cat1 == <<"C", "1">>

Cat2 == <<"C", "2">>

I1 == <<"I", "1">>

I2 == <<"I", "2">>

ItemA == Item(A, Cat1, I1, 5)

ItemB == Item(B, Cat2, I2, 10)

\* The carts the model calls get_recommendations with: the empty cart, a
\* cart of one item, and a cart of two items in both orders.
SpecCarts == {<<>>, <<ItemA>>, <<ItemA, ItemB>>, <<ItemB, ItemA>>}

\* The products tables the client starts with: one product, OTC or
\* prescription-required.
SpecCatalogs == {c \in Catalogs : {r.name : r \in c} = {Almax}}

Env(outcomes, text, db) == [outcomes |-> outcomes, text |-> text, db |-> db]

\* The generation service answers at once.
Answered == <<"text", "text", "text">>

\* What the collaborators can do during one call: the generation service
\* rejects the request; it answers with an object whose item has an invalid
\* priority; it answers with one recommendation and the catalog query works
\* or raises; it answers with two recommendations.
SpecEnvs ==
    {Env(<<"api_error", "text", "text">>, EmptyText, "ok"),
     Env(Answered, JsonText(<<[Rec(Almax) EXCEPT !.priority = "urgent"]>>), "ok"),
     Env(Answered, JsonText(<<Rec(Almax)>>), "ok"),
     Env(Answered, JsonText(<<Rec(Almax)>>), "query_error"),
     Env(Answered, JsonText(<<Rec(Almax), Rec(Tramadol)>>), "ok")}

(***************************************************************************)
(* Actions.                                                                *)
(***************************************************************************)
IsPermutation(s, t) ==
    /\ Len(s) = Len(t)
    /\ \E p \in [DOMAIN s -> DOMAIN s] :
          /\ \A i, j \in DOMAIN s : i # j => p[i] # p[j]
          /\ \A i \in DOMAIN s : t[i] = s[p[i]]

\* ClaudeClient.get_recommendations(cart_items, force_refresh), with what the
\* generation service and the products table do during the call.
GetRecommendations(cart_items, force_refresh, env) ==
    /\ last.n < MaxCalls
    /\ \E r \in {get_recommendations(ST, cart_items, force_refresh, env, catalog, now)},
          cart_hash \in {_generate_cart_hash(cart_items)} :
          /\ SetST(r.st)
          /\ written' =
                Restrict(IF r.stored # <<>> /\ cart_hash \in Keys(r.st.cm.cache)
                         THEN [k \in (DOMAIN written) \cup {cart_hash} |->
                                  IF k = cart_hash
                                  THEN [cart |-> cart_items, catalog |-> catalog]
                                  ELSE written[k]]
                         ELSE written,
                         Keys(r.st.cm.cache))
          /\ last' = [op |-> "get_recommendations", n |-> last.n + 1,
                      cart_items |-> cart_items, force_refresh |-> force_refresh,
                      ret |-> r.ret, stored |-> r.stored, attempts |-> r.attempts,
                      looked_up |-> r.looked_up]
    /\ UNCHANGED <<catalog, now, used, returned, results, lock, threads>>

\* last, after an operation other than get_recommendations
Other == [op |-> "other", n |-> last.n]

\* ClaudeClient.clear_cache
ClearCache ==
    /\ CACHE_ENABLED
    /\ cache # <<>>
    /\ SetCM(clear(CM))
    /\ written' = <<>>
    /\ last' = Other
    /\ ClientUnchanged
    /\ UNCHANGED <<catalog, now, used, returned, results, lock, threads>>

\* CacheManager.delete(key) by a holder of the cache manager
Delete(key) ==
    /\ SetCM(delete(CM, key).cm)
    /\ written' = Restrict(written, Keys(delete(CM, key).cm.cache))
    /\ last' = Other
    /\ ClientUnchanged
    /\ UNCHANGED <<catalog, now, used, returned, results, lock, threads>>

\* CacheManager.cleanup_expired() by a holder of the cache manager
CleanupExpired ==
    /\ SetCM(cleanup_expired(CM, now).cm)
    /\ written' = Restrict(written, Keys(cleanup_expired(CM, now).cm.cache))
    /\ last' = Other
    /\ ClientUnchanged
    /\ UNCHANGED <<catalog, now, used, returned, results, lock, threads>>

\* Time passes.
Tick ==
    /\ now < MaxTime
    /\ now' = now + 1
    /\ last' = Other
    /\ ClientUnchanged
    /\ UNCHANGED <<cache, timestamps, max_size, ttl, hits, misses, evictions,
                   expirations, catalog, written, used, returned, results, lock, threads>>

\* The data store reclassifies a product:
\* UPDATE products SET requires_prescription = ? WHERE id = ?
Classify(row, flag) ==
    /\ row \in catalog
    /\ row.requires_prescription # flag
    /\ catalog' = (catalog \ {row}) \cup {[row EXCEPT !.requires_prescription = flag]}
    /\ last' = Other
    /\ ClientUnchanged
    /\ UNCHANGED <<cache, timestamps, max_size, ttl, hits, misses, evictions,
                   expirations, now, written, used, returned, results, lock, threads>>

\* No call has used a key or made a get, the lock is free and no thread has been started.
InitSequential ==
    /\ used = <<>>
    /\ returned = [value |-> 0, absent |-> 0]
    /\ results = <<>>
    /\ lock = "free"
    /\ threads = <<>>

InitCounters ==
    /\ hits = 0
    /\ misses = 0
    /\ evictions = 0
    /\ expirations = 0
    /\ api_calls = 0
    /\ api_errors = 0
    /\ cache_hits = 0
    /\ prescription_filtered = 0

\* After ClaudeClient(cache_manager, db_manager=...) on a new CacheManager
Init ==
    /\ cache = <<>>
    /\ timestamps = <<>>
    /\ max_size \in 1..MaxSize
    /\ ttl = MaxTtl
    /\ InitCounters
    /\ catalog \in SpecCatalogs
    /\ now = 0
    /\ written = <<>>
    /\ last = [op |-> "init", n |-> 0]
    /\ InitSequential

Next ==
    \/ \E cart_items \in SpecCarts, force_refresh \in BOOLEAN, env \in SpecEnvs :
          GetRecommendations(cart_items, force_refresh, env)
    \/ ClearCache
    \/ \E key \in Keys(cache) : Delete(key)
    \/ CleanupExpired
    \/ Tick
    \/ \E row \in catalog, flag \in {0, 1} : Classify(row, flag)

Spec == Init /\ [][Next]_vars

(***************************************************************************)
(* SpecFilter: _filter_prescription_products applied to a list of          *)
(* recommendations against a products table.                               *)
(***************************************************************************)
FilterDbStates == {"ok", "connect_error", "query_error"}

InitFilter ==
    /\ cache = <<>>
    /\ timestamps = <<>>
    /\ max_size = MaxSize
    /\ ttl = MaxTtl
    /\ InitCounters
    /\ catalog \in Catalogs
    /\ now = 0
    /\ written = <<>>
    /\ last = [op |-> "init", n |-> 0]
    /\ InitSequential

\* self._filter_prescription_products(recommendations), with what the
\* products table does during the call
FilterPrescriptionProducts(recommendations, db) ==
    /\ last.op = "init"
    /\ \E f \in {_filter_prescription_products(recommendations, catalog, db)} :
          /\ prescription_filtered' = prescription_filtered + f.counted
          /\ last' = [op |-> "_filter_prescription_products", n |-> 1,
                      recommendations |-> recommendations, db |-> db,
                      raised |-> f.raised, filtered |-> f.filtered,
                      decisions |-> f.decisions]
    /\ UNCHANGED <<cache, timestamps, max_size, ttl, hits, misses, evictions,
                   expirations, api_calls, api_errors, cache_hits, catalog, now, written,
                   used, returned, results, lock, threads>>

NextFilter ==
    \E recommendations \in RecLists, db \in FilterDbStates :
        FilterPrescriptionProducts(recommendations, db)

SpecFilter == InitFilter /\ [][NextFilter]_vars

\* The filter has run; its loop took a turn for recommendations[i] for every
\* i in DOMAIN last.decisions.
Filtered == last.op = "_filter_prescription_products"

\* The product name of the i-th candidate of the filtered list
Candidate(i) == get_product_name(last.recommendations[i])

\* The text with its ASCII letters lower-cased
fold(s) == [i \in DOMAIN s |-> FoldAscii(s[i])]

\* The candidate name contains the row name, or the row name contains the
\* candidate name, letter case aside.
SubstringMatch(product_name, name) ==
    \/ Contains(fold(product_name), fold(name))
    \/ Contains(fold(name), fold(product_name))

MatchingRows(cat, product_name) == {r \in cat : SubstringMatch(product_name, r.name)}

\* The lower-cased name contains a token of the ingredient blocklist
HasBlockedIngredient(product_name) ==
    \E token \in PRESCRIPTION_ACTIVE_INGREDIENTS : Contains(lower(product_name), token)

\* The lower-cased name matches a dose pattern
HasDosePattern(product_name) ==
    \E pattern \in PRESCRIPTION_NAME_PATTERNS : re_search(pattern, lower(product_name))

\* C3: a candidate whose name has no substring match in either direction
\* with any row of the catalog is rejected, whatever the blocklist and the
\* dose patterns say of it; so an empty catalog rejects every candidate.
C3_NoCatalogMatchRejected ==
    Filtered =>
        \A i \in DOMAIN last.decisions :
            MatchingRows(catalog, Candidate(i)) = {} => ~last.decisions[i].accept

\* C4: a candidate whose lower-cased name contains a blocklisted ingredient
\* is rejected by layer 1, with neither the dose patterns nor the catalog
\* consulted for it, also when the catalog holds a matching OTC row; it is
\* never in the filtered list.
C4_BlocklistedRejectedAtLayer1 ==
    Filtered =>
        /\ \A i \in DOMAIN last.decisions :
              HasBlockedIngredient(Candidate(i)) =>
                  last.decisions[i] = Decision(1, FALSE, 1, FALSE)
        /\ \A j \in DOMAIN last.filtered :
              ~HasBlockedIngredient(get_product_name(last.filtered[j]))

\* A blocklisted candidate with a matching OTC row is rejected by layer 1
\* while the catalog query would have raised.
C4_Witness ==
    /\ Filtered
    /\ last.db = "query_error"
    /\ [name |-> Tramadol, requires_prescription |-> 0] \in catalog
    /\ Len(last.decisions) >= 1
    /\ Candidate(1) = Tramadol
    /\ last.decisions[1].layer = 1
    /\ ~last.raised

\* C5: when several rows of the catalog match a candidate that passed
\* layers 1 and 2, the candidate is accepted only if none of the matching
\* rows is prescription-required, whatever the lengths and the alphabetical
\* order of the names of the matching OTC rows.
C5_AnyMatchingRxRowRejects ==
    Filtered =>
        \A i \in DOMAIN last.decisions :
            LET M == MatchingRows(catalog, Candidate(i))
            IN (/\ Candidate(i) # <<>>
                /\ ~HasBlockedIngredient(Candidate(i))
                /\ ~HasDosePattern(Candidate(i))
                /\ Cardinality(M) >= 2
                /\ last.decisions[i].accept)
               => \A r \in M : r.requires_prescription = 0

\* The shorter, alphabetically first matching row is OTC, a longer matching
\* row is prescription-required, and the candidate is rejected at layer 3.
C5_Witness ==
    /\ Filtered
    /\ {[name |-> Almax, requires_prescription |-> 0],
         [name |-> AlmaxForte, requires_prescription |-> 1]} \subseteq catalog
    /\ Len(last.decisions) >= 1
    /\ Candidate(1) = Almax
    /\ last.decisions[1] = Decision(3, FALSE, 1, FALSE)

\* C31: the filter adds to prescription_filtered one for every candidate it
\* rejects: when it returns, the counter has grown by the length of the
\* list it was given less the length of the list it returns, also when a
\* candidate has no product_name or an empty one.
C31_CountsEveryRejection ==
    (Filtered /\ ~last.raised)
        => prescription_filtered = Len(last.recommendations) - Len(last.filtered)

\* The parsed dict that holds the filtered list as its recommendations
AsParsed(recommendations) ==
    [kind |-> "json", keys |-> {"recommendations"}, is_list |-> TRUE,
     recommendations |-> recommendations]

\* C32: the filter raises for no list of candidates that
\* validate_recommendations accepts, whatever the products table does
\* during the call, a failed connection or query included.
C32_FilterNeverRaises ==
    (Filtered /\ validate_recommendations(AsParsed(last.recommendations)))
        => ~last.raised

(***************************************************************************)
(* SpecValidate: PromptBuilder.validate_recommendations applied to a       *)
(* parsed object.                                                          *)
(***************************************************************************)
MaxValidated == 3

\* An element of the list that is no dict (a JSON number, null, array or
\* string): keys holds the names n for which `n in element` is true.
NonDict(type, keys) ==
    [type |-> type, keys |-> keys, product_name |-> <<>>, priority |-> "high"]

\* The elements: two dicts that are in order, a dict without 'reason' and
\* 'priority', a dict with a priority that is not allowed, the number 5,
\* null, the array of the four field names and the string "Almax".
ValidateElements ==
    {Rec(Almax),
     [Rec(Tramadol) EXCEPT !.priority = "low"],
     [Rec(Almax) EXCEPT !.keys = {"product_name", "category"}],
     [Rec(Almax) EXCEPT !.priority = "urgent"],
     NonDict("int", {}),
     NonDict("NoneType", {}),
     NonDict("list", required_fields),
     NonDict("str", {})}

\* The parsed objects: every list of up to MaxValidated elements under
\* 'recommendations', a value there that is no list, and no such key.
ValidateInputs ==
    {JsonText(recommendations) : recommendations \in SeqsUpTo(ValidateElements, MaxValidated)}
        \cup {Text("json", {"recommendations", "analysis"}, FALSE, <<>>),
              Text("json", {"analysis"}, FALSE, <<>>)}

InitValidate ==
    /\ cache = <<>>
    /\ timestamps = <<>>
    /\ max_size = MaxSize
    /\ ttl = MaxTtl
    /\ InitCounters
    /\ catalog = {}
    /\ now = 0
    /\ written = <<>>
    /\ last = [op |-> "init", n |-> 0]
    /\ InitSequential

\* PromptBuilder.validate_recommendations(data)
ValidateRecommendations(data) ==
    /\ last.op = "init"
    /\ last' = [op |-> "validate_recommendations", n |-> 1, data |-> data,
                outcome |-> validate_outcome(data)]
    /\ UNCHANGED <<cache, timestamps, max_size, ttl, hits, misses, evictions,
                   expirations, api_calls, api_errors, cache_hits,
                   prescription_filtered, catalog, now, written, used, returned,
                   results, lock, threads>>

NextValidate == \E data \in ValidateInputs : ValidateRecommendations(data)

SpecValidate == InitValidate /\ [][NextValidate]_vars

Validated == last.op = "validate_recommendations"

\* recommendations is a non-empty list in which every element is a dict
\* that carries the four fields and has an allowed priority.
WellFormed(data) ==
    /\ "recommendations" \in data.keys
    /\ data.is_list
    /\ data.recommendations # <<>>
    /\ \A idx \in DOMAIN data.recommendations :
          LET rec == data.recommendations[idx]
          IN /\ rec.type = "dict"
             /\ required_fields \subseteq rec.keys
             /\ rec.priority \in valid_priorities

\* C34: validate_recommendations returns True when recommendations is a
\* non-empty list whose every element carries product_name, category,
\* reason and priority with a priority among high, medium and low, and
\* returns False otherwise, wherever in the list the violating element is.
C34_TrueExactlyWhenWellFormed ==
    Validated
        => last.outcome = (IF WellFormed(last.data) THEN "True" ELSE "False")

(***************************************************************************)
(* Claims on get_recommendations, under Spec.                              *)
(***************************************************************************)
Called == last.op = "get_recommendations"

\* What the filter accepts of a recommendation against a products table: a
\* name that is not empty, holds no blocklisted ingredient and matches no
\* dose pattern, and rows selected by the catalog query that are all OTC.
Accepted(rec, cat) ==
    LET product_name == get_product_name(rec)
        selected == {r \in cat : WhereMatches(r.name, product_name)}
    IN /\ product_name # <<>>
       /\ ~HasBlockedIngredient(product_name)
       /\ ~HasDosePattern(product_name)
       /\ selected # {}
       /\ \A r \in selected : r.requires_prescription = 0

AllAccepted(value, cat) ==
    \A j \in DOMAIN value.recommendations : Accepted(value.recommendations[j], cat)

\* C1: the value get_recommendations passes to the cache and the result it
\* returns from the generation path hold only items the filter accepts
\* against the catalog of the call, and the two are the same value; every
\* entry of the cache holds only items accepted against the catalog it was
\* written under.
C1_OnlyAcceptedItemsCachedOrReturned ==
    /\ Called =>
          /\ \A i \in DOMAIN last.stored : AllAccepted(last.stored[i], catalog)
          /\ \A i \in DOMAIN last.ret :
                last.ret[i].source = "api" => AllAccepted(last.ret[i], catalog)
          /\ last.stored # <<>> => last.ret = last.stored
    /\ \A i \in DOMAIN cache :
          /\ cache[i].key \in DOMAIN written
          /\ AllAccepted(cache[i].value, written[cache[i].key].catalog)

\* The first call parsed two recommendations, the filter removed one, and
\* the call cached and returned the other.
C1_Witness ==
    /\ Called
    /\ last.n = 1
    /\ prescription_filtered = 1
    /\ last.stored # <<>>
    /\ last.ret # <<>>
    /\ last.ret[1].source = "api"
    /\ Len(last.ret[1].recommendations) = 1

\* C2: no result get_recommendations returns, from the generation path or
\* from the cache, holds a product that a row of the catalog flags
\* prescription-required when the result is returned.
C2_NoPrescriptionItemAtReturn ==
    Called =>
        \A i \in DOMAIN last.ret :
            \A j \in DOMAIN last.ret[i].recommendations :
                \A r \in MatchingRows(catalog,
                                      get_product_name(last.ret[i].recommendations[j])) :
                    r.requires_prescription = 0

\* C6: a call without force_refresh for a cart that is a reordering of the
\* cart an entry was written for, made while the entry is stored and its age
\* is at most ttl, returns source "cache", makes no generation attempt,
\* leaves api_calls as it was and adds one to cache_hits.
C6_ReorderedCallHitsCache ==
    [][(/\ last'.op = "get_recommendations"
        /\ last'.n = last.n + 1
        /\ ~last'.force_refresh
        /\ \E k \in DOMAIN written :
              /\ k \in Keys(cache)
              /\ k \in DOMAIN timestamps
              /\ now - timestamps[k] <= ttl
              /\ IsPermutation(last'.cart_items, written[k].cart))
       => (/\ last'.ret # <<>>
           /\ last'.ret[1].source = "cache"
           /\ last'.attempts = 0
           /\ api_calls' = api_calls
           /\ cache_hits' = cache_hits + 1)]_vars

\* The entry written for the cart <<ItemA, ItemB>> at time 0 is hit at time
\* ttl by a call for <<ItemB, ItemA>>.
C6_Witness ==
    /\ Called
    /\ last.cart_items = <<ItemB, ItemA>>
    /\ ~last.force_refresh
    /\ last.ret # <<>>
    /\ last.ret[1].source = "cache"
    /\ last.ret[1].timestamp = 0
    /\ now = ttl
    /\ \E k \in DOMAIN written : written[k].cart = <<ItemA, ItemB>>
    /\ api_calls = 1
    /\ cache_hits = 1

(***************************************************************************)
(* SpecHash: _generate_cart_hash applied to a cart.                        *)
(***************************************************************************)
HashNames == {A, B}

HashCategories == {Cat1, Cat2}

HashIngredients == {I1, I2}

HashPrices == {5, 10}

\* Cart items: every combination of the values above, and items that lack
\* the active_ingredient key, or the category and price keys.
HashItems ==
    {Item(n, c, i, p) : n \in HashNames, c \in HashCategories,
                        i \in HashIngredients, p \in HashPrices}
        \cup {[Item(A, Cat1, <<>>, 5) EXCEPT !.keys = @ \ {"active_ingredient"}],
              [Item(B, <<>>, I1, 0) EXCEPT !.keys = @ \ {"category", "price"}]}

HashCarts == SeqsUpTo(HashItems, MaxCartLen)

InitHash ==
    /\ cache = <<>>
    /\ timestamps = <<>>
    /\ max_size = MaxSize
    /\ ttl = MaxTtl
    /\ InitCounters
    /\ catalog = {}
    /\ now = 0
    /\ written = <<>>
    /\ last = [op |-> "init", n |-> 0]
    /\ InitSequential

\* self._generate_cart_hash(cart_items)
GenerateCartHash(cart_items) ==
    /\ last.op = "init"
    /\ last' = [op |-> "_generate_cart_hash", n |-> 1, cart_items |-> cart_items,
                cart_hash |-> _generate_cart_hash(cart_items)]
    /\ UNCHANGED <<cache, timestamps, max_size, ttl, hits, misses, evictions,
                   expirations, api_calls, api_errors, cache_hits,
                   prescription_filtered, catalog, now, written, used, returned, results, lock, threads>>

NextHash == \E cart_items \in HashCarts : GenerateCartHash(cart_items)

SpecHash == InitHash /\ [][NextHash]_vars

Hashed == last.op = "_generate_cart_hash"

PermutationsOf(S) == {p \in [S -> S] : \A i, j \in S : i # j => p[i] # p[j]}

\* C7: the hash of a cart is the hash of every permutation of its items.
C7_HashOrderIndependent ==
    Hashed =>
        \A p \in PermutationsOf(DOMAIN last.cart_items) :
            _generate_cart_hash([i \in DOMAIN last.cart_items |-> last.cart_items[p[i]]])
                = last.cart_hash

\* A cart of two items that differ in every hashed field has been hashed.
C7_Witness ==
    /\ Hashed
    /\ Len(last.cart_items) = 2
    /\ \A field \in {"name", "category", "active_ingredient"} :
          item_get(last.cart_items[1], field) # item_get(last.cart_items[2], field)

\* The (name, category, active_ingredient) of the items of a cart, in cart order
Triples(cart_items) ==
    [i \in DOMAIN cart_items |->
        <<item_get(cart_items[i], "name"), item_get(cart_items[i], "category"),
          item_get(cart_items[i], "active_ingredient")>>]

\* C8: two carts whose multisets of (name, category, active_ingredient)
\* differ have different canonical hash inputs, and so different hashes.
C8_DifferentMultisetsDifferentHash ==
    Hashed =>
        \A other \in HashCarts :
            ~IsPermutation(Triples(last.cart_items), Triples(other))
                => /\ hash_input(other) # last.cart_hash.md5
                   /\ _generate_cart_hash(other) # last.cart_hash

\* The item of a cart with one field set to a value
with_field(item, field, v) == [item EXCEPT !.keys = @ \cup {field}, ![field] = v]

HashValues(field) ==
    {<<>>} \cup (CASE field = "name" -> HashNames
                   [] field = "category" -> HashCategories
                   [] field = "active_ingredient" -> HashIngredients)

\* C9: setting the name, the category or the active_ingredient of one item
\* to a different value changes the canonical hash input; setting or
\* removing the price of an item leaves the hash as it is.
C9_HashDependsOnThreeFields ==
    Hashed =>
        LET c == last.cart_items
        IN /\ \A i \in DOMAIN c, field \in {"name", "category", "active_ingredient"} :
                 \A v \in HashValues(field) :
                     v # item_get(c[i], field)
                         => hash_input([c EXCEPT ![i] = with_field(c[i], field, v)])
                                # last.cart_hash.md5
           /\ \A i \in DOMAIN c :
                 /\ \A p \in HashPrices \cup {0} :
                       _generate_cart_hash([c EXCEPT ![i] = with_field(c[i], "price", p)])
                           = last.cart_hash
                 /\ _generate_cart_hash([c EXCEPT ![i].keys = @ \ {"price"}])
                       = last.cart_hash

\* A cart of two items with the same name and different categories has been
\* hashed: setting the category of the first to that of the second changes
\* the sorted list of categories.
C9_Witness ==
    /\ Hashed
    /\ Len(last.cart_items) = 2
    /\ item_get(last.cart_items[1], "name") = item_get(last.cart_items[2], "name")
    /\ item_get(last.cart_items[1], "category") = Cat1
    /\ item_get(last.cart_items[2], "category") = Cat2

(***************************************************************************)
(* SpecCache: a CacheManager under its callers' operations.                *)
(***************************************************************************)
CacheKeys == {"k1", "k2", "k3"}

CacheValues == {"v1", "v2"}

\* After CacheManager(max_size, ttl)
InitCache ==
    /\ cache = <<>>
    /\ timestamps = <<>>
    /\ max_size \in 0..MaxSize
    /\ ttl \in {0 - MaxNegTtl} \cup (0..MaxTtl)
    /\ InitCounters
    /\ catalog = {}
    /\ now = 0
    /\ written = <<>>
    /\ last = [op |-> "init", n |-> 0]
    /\ InitSequential

CacheOnly == UNCHANGED <<api_calls, api_errors, cache_hits, prescription_filtered,
                         catalog, now, results, lock, threads>>

\* used and written, after a call that neither set nor hit a key: kept for
\* the stored keys
StillUsed(cm) ==
    /\ used' = Restrict(used, Keys(cm.cache))
    /\ written' = Restrict(written, Keys(cm.cache))

\* used, after call number n set or hit key
NowUsed(cm, key, n) ==
    used' = Restrict([k \in (DOMAIN used) \cup {key} |-> IF k = key THEN n ELSE used[k]],
                     Keys(cm.cache))

\* written, after call number n was set(key, value) at clock reading t: the
\* value, the time and the call number of the last set of each stored key
NowWritten(cm, key, value, t, n) ==
    written' = Restrict([k \in (DOMAIN written) \cup {key} |->
                            IF k = key THEN [value |-> value, at |-> t, n |-> n]
                            ELSE written[k]],
                        Keys(cm.cache))

CacheSet(key, value) ==
    /\ last.n < MaxOps
    /\ \E r \in {set(CM, key, value, now)} :
          /\ SetCM(r.cm)
          /\ last' = [op |-> "set", n |-> last.n + 1, key |-> key, value |-> value,
                      present |-> key \in Keys(cache), raised |-> r.raised]
          /\ IF r.raised THEN StillUsed(r.cm)
             ELSE NowUsed(r.cm, key, last.n + 1) /\ NowWritten(r.cm, key, value, now, last.n + 1)
    /\ UNCHANGED returned
    /\ CacheOnly

CacheGet(key) ==
    /\ last.n < MaxOps
    /\ \E r \in {get(CM, key, now)} :
          /\ SetCM(r.cm)
          /\ last' = [op |-> "get", n |-> last.n + 1, key |-> key, ret |-> r.ret]
          /\ IF r.ret = <<>> THEN StillUsed(r.cm)
             ELSE NowUsed(r.cm, key, last.n + 1) /\ UNCHANGED written
          /\ returned' = IF r.ret = <<>> THEN [returned EXCEPT !.absent = @ + 1]
                         ELSE [returned EXCEPT !.value = @ + 1]
    /\ CacheOnly

CacheDelete(key) ==
    /\ last.n < MaxOps
    /\ SetCM(delete(CM, key).cm)
    /\ last' = [op |-> "delete", n |-> last.n + 1, key |-> key,
                stale |-> key \in Keys(cache) /\ is_expired(CM, key, now),
                ret |-> delete(CM, key).ret]
    /\ StillUsed(delete(CM, key).cm)
    /\ UNCHANGED returned
    /\ CacheOnly

CacheClear ==
    /\ last.n < MaxOps
    /\ SetCM(clear(CM))
    /\ last' = [op |-> "clear", n |-> last.n + 1]
    /\ StillUsed(clear(CM))
    /\ UNCHANGED returned
    /\ CacheOnly

CacheCleanupExpired ==
    /\ last.n < MaxOps
    /\ SetCM(cleanup_expired(CM, now).cm)
    /\ last' = [op |-> "cleanup_expired", n |-> last.n + 1,
                ret |-> cleanup_expired(CM, now).ret]
    /\ StillUsed(cleanup_expired(CM, now).cm)
    /\ UNCHANGED returned
    /\ CacheOnly

CacheResetStats ==
    /\ last.n < MaxOps
    /\ SetCM(reset_stats(CM))
    /\ last' = [op |-> "reset_stats", n |-> last.n + 1]
    /\ UNCHANGED <<used, written>>
    /\ returned' = [value |-> 0, absent |-> 0]
    /\ CacheOnly

CacheGetStats ==
    /\ last.n < MaxOps
    /\ last' = [op |-> "get_stats", n |-> last.n + 1, ret |-> get_stats(CM)]
    /\ UNCHANGED <<cache, timestamps, max_size, ttl, hits, misses, evictions,
                   expirations, used, written, returned>>
    /\ CacheOnly

NextCache ==
    \/ \E key \in CacheKeys, value \in CacheValues : CacheSet(key, value)
    \/ \E key \in CacheKeys : CacheGet(key)
    \/ \E key \in CacheKeys : CacheDelete(key)
    \/ CacheClear
    \/ CacheCleanupExpired
    \/ CacheResetStats
    \/ CacheGetStats
    \/ Tick

SpecCache == InitCache /\ [][NextCache]_vars

\* C10: with max_size at least 1, the cache never holds more than max_size
\* entries, whatever set, get, delete, clear and cleanup_expired calls were
\* made.
C10_SizeAtMostMaxSize == max_size >= 1 => Len(cache) <= max_size

\* A set on a full cache evicted an entry and left the cache full.
C10_Witness ==
    /\ last.op = "set"
    /\ max_size >= 1
    /\ Len(cache) = max_size
    /\ evictions >= 1

\* The stored keys whose most recent set or get hit is the oldest
OldestUsed == {k \in Keys(cache) : \A j \in Keys(cache) : used[k] <= used[j]}

\* C11: a set that inserts a new key into a cache holding max_size entries
\* removes exactly one entry, the one whose most recent set or get hit is the
\* oldest of all stored entries, and adds one to evictions; a get that hits a
\* key leaves that key last in the eviction order.
C11_EvictsLeastRecentlyUsed ==
    [][/\ (/\ last'.op = "set"
           /\ ~last'.raised
           /\ last'.key \notin Keys(cache)
           /\ Len(cache) = max_size)
          => (/\ Cardinality(OldestUsed) = 1
              /\ Keys(cache') = (Keys(cache) \ OldestUsed) \cup {last'.key}
              /\ Len(cache') = Len(cache)
              /\ \A i \in DOMAIN cache' :
                    cache'[i].key # last'.key => cache'[i] \in Range(cache)
              /\ evictions' = evictions + 1)
       /\ (last'.op = "get" /\ last'.ret # <<>>)
          => (/\ cache'[Len(cache')].key = last'.key
              /\ Keys(cache') = Keys(cache)
              /\ \A k \in Keys(cache') : used'[k] <= used'[last'.key])]_vars

\* With max_size 2: k1 and k2 were set, k1 was hit, and the set of k3 removed
\* k2, the older insertion k1 staying.
C11_Witness ==
    /\ last.op = "set"
    /\ last.key = "k3"
    /\ max_size = 2
    /\ Keys(cache) = {"k1", "k3"}
    /\ used["k1"] = 3
    /\ hits = 1
    /\ evictions = 1

\* The age at the clock reading now of the stored entry for key, counted
\* from its last set
AgeSinceSet(key) == now - written[key].at

\* C12: a get on a stored entry whose age since its last set exceeds ttl
\* returns absent, removes the entry, adds one to expirations and one to
\* misses and leaves hits and evictions as they were; a get on a stored entry
\* whose age is at most ttl returns the value last set.
C12_GetExpiresByAge ==
    [][(last'.op = "get" /\ last'.key \in Keys(cache))
       => /\ AgeSinceSet(last'.key) > ttl
             => (/\ last'.ret = <<>>
                 /\ cache' = Without(cache, last'.key)
                 /\ last'.key \notin DOMAIN timestamps'
                 /\ expirations' = expirations + 1
                 /\ misses' = misses + 1
                 /\ hits' = hits
                 /\ evictions' = evictions)
          /\ AgeSinceSet(last'.key) <= ttl
             => last'.ret = <<written[last'.key].value>>]_vars

\* With ttl 1, an entry set at time 0 was asked for at time 2 and removed,
\* another entry staying stored.
C12_Witness ==
    /\ last.op = "get"
    /\ last.ret = <<>>
    /\ ttl = 1
    /\ now = 2
    /\ last.key \notin Keys(cache)
    /\ Len(cache) = 1
    /\ expirations = 1
    /\ misses = 1
    /\ hits = 0

\* The stored entry for key has not been hit since its last set
NotHitSinceSet(key) == used[key] = written[key].n

\* C13 as stated: with ttl <= 0, the first get after an entry's set returns
\* absent and removes the entry, whatever time has elapsed since the set.
C13_NonPositiveTtlExpiresOnFirstGet ==
    [][(/\ last'.op = "get"
        /\ ttl <= 0
        /\ last'.key \in Keys(cache)
        /\ NotHitSinceSet(last'.key))
       => (last'.ret = <<>> /\ last'.key \notin Keys(cache'))]_vars

\* C13 as amended: with ttl <= 0, the first get after an entry's set returns
\* absent and removes the entry exactly when the clock reading of the get
\* minus that of the set exceeds ttl; otherwise it returns the value and
\* keeps the entry.  So with a clock that does not go back a negative ttl
\* expires the entry at any reading, and ttl = 0 at any later reading but not
\* at the reading of the set.
C13_NonPositiveTtlExpiresByAge ==
    [][(/\ last'.op = "get"
        /\ ttl <= 0
        /\ last'.key \in Keys(cache)
        /\ NotHitSinceSet(last'.key))
       => /\ (last'.ret = <<>> /\ last'.key \notin Keys(cache'))
             <=> AgeSinceSet(last'.key) > ttl
          /\ (last'.ret = <<written[last'.key].value>> /\ last'.key \in Keys(cache'))
             <=> AgeSinceSet(last'.key) <= ttl
          /\ ttl < 0 => last'.ret = <<>>
          /\ (ttl = 0 /\ AgeSinceSet(last'.key) = 0) => last'.ret # <<>>]_vars

\* With ttl 0, the only entry, set at time 0, was asked for at time 1 by the
\* first get and removed.
C13_Witness ==
    /\ last.op = "get"
    /\ last.n = 2
    /\ ttl = 0
    /\ now = 1
    /\ last.ret = <<>>
    /\ cache = <<>>
    /\ expirations = 1

\* C14: a set on a key that is stored replaces its value, leaves the key last
\* in the eviction order, sets its timestamp to the clock reading of the call,
\* keeps the size, keeps every other entry with its value, timestamp and
\* place, and leaves evictions (and the other counters) as they were, also
\* when the cache holds max_size entries.
C14_SetOnStoredKeyReplaces ==
    [][(last'.op = "set" /\ last'.key \in Keys(cache))
       => (/\ ~last'.raised
           /\ cache' = Append(Without(cache, last'.key),
                              [key |-> last'.key, value |-> last'.value])
           /\ Len(cache') = Len(cache)
           /\ DOMAIN timestamps' = DOMAIN timestamps
           /\ \A k \in DOMAIN timestamps :
                 timestamps'[k] = IF k = last'.key THEN now ELSE timestamps[k]
           /\ evictions' = evictions
           /\ <<hits', misses', expirations'>> = <<hits, misses, expirations>>)]_vars

\* A cache of two entries at capacity, where the older key k1 was set again
\* with another value at time 1: it is now last, k2 stays first, nothing was
\* evicted.
C14_Witness ==
    /\ last.op = "set"
    /\ last.present
    /\ last.key = "k1"
    /\ max_size = 2
    /\ cache = <<[key |-> "k2", value |-> "v1"], [key |-> "k1", value |-> "v2"]>>
    /\ timestamps["k1"] = 1
    /\ timestamps["k2"] = 0
    /\ evictions = 0

\* The four counters
Counters == <<hits, misses, evictions, expirations>>

\* C15: clear() removes every entry (the size is 0 and a get of any key
\* returns absent) and leaves hits, misses, evictions and expirations as they
\* were; reset_stats() sets the four counters to zero and leaves every entry,
\* its timestamp and the order of the entries as they were.
C15_EntriesAndStatisticsIndependent ==
    [][/\ last'.op = "clear"
          => (/\ Len(cache') = 0
              /\ timestamps' = <<>>
              /\ \A key \in CacheKeys : get(CM', key, now').ret = <<>>
              /\ Counters' = Counters)
       /\ (last.op = "clear" /\ last'.op = "get") => last'.ret = <<>>
       /\ last'.op = "reset_stats"
          => (/\ Counters' = <<0, 0, 0, 0>>
              /\ cache' = cache
              /\ timestamps' = timestamps)]_vars

\* A clear emptied a cache that had been hit once and missed once: both
\* counts are still there.
C15_Witness ==
    /\ last.op = "clear"
    /\ last.n = 4
    /\ cache = <<>>
    /\ hits = 1
    /\ misses = 1
    /\ expirations = 0

\* C16: delete(key) returns true exactly when key is stored, fresh or stale,
\* and then removes that entry and its timestamp; when key is not stored it
\* returns false and changes nothing; in both cases the four counters stay
\* and every other entry keeps its value, its timestamp and its place in the
\* eviction order.
C16_DeleteRemovesExactlyTheKey ==
    [][last'.op = "delete"
       => (/\ last'.ret = (last'.key \in Keys(cache))
           /\ last'.key \notin Keys(cache')
           /\ cache' = Without(cache, last'.key)
           /\ timestamps' = Restrict(timestamps, DOMAIN timestamps \ {last'.key})
           /\ last'.key \notin Keys(cache)
              => (cache' = cache /\ timestamps' = timestamps)
           /\ Counters' = Counters)]_vars

\* A stale entry was deleted (true returned) from a cache of two entries: the
\* other entry is still there and nothing was counted as expired.
C16_Witness ==
    /\ last.op = "delete"
    /\ last.ret
    /\ last.stale
    /\ ttl = 1
    /\ Len(cache) = 1
    /\ DOMAIN timestamps = Keys(cache)
    /\ expirations = 0

\* The stored keys whose age since their last set exceeds ttl
ExpiredByAge == {k \in Keys(cache) : AgeSinceSet(k) > ttl}

\* C17: cleanup_expired() removes exactly the entries whose age since their
\* last set exceeds ttl, returns their number, adds that number to
\* expirations, leaves hits, misses and evictions as they were, and leaves
\* every other entry with its value, its timestamp and its place relative to
\* the other entries kept.
C17_CleanupRemovesExactlyTheExpired ==
    [][last'.op = "cleanup_expired"
       => (/\ Keys(cache') = Keys(cache) \ ExpiredByAge
           /\ cache' = SelectSeq(cache, LAMBDA e : e.key \notin ExpiredByAge)
           /\ timestamps' = Restrict(timestamps, DOMAIN timestamps \ ExpiredByAge)
           /\ last'.ret = Cardinality(ExpiredByAge)
           /\ expirations' = expirations + Cardinality(ExpiredByAge)
           /\ <<hits', misses', evictions'>> = <<hits, misses, evictions>>)]_vars

\* With ttl 1 at time 2, a sweep removed one entry and kept the other, of
\* age 1.
C17_Witness ==
    /\ last.op = "cleanup_expired"
    /\ last.ret = 1
    /\ ttl = 1
    /\ now = 2
    /\ Len(cache) = 1
    /\ timestamps[cache[1].key] = 1
    /\ expirations = 1

\* C18: at any point, hits is the number of get calls since the last
\* reset_stats that returned a value and misses the number of those that
\* returned absent; a get adds one to exactly one of the two and leaves the
\* other; get_stats reports hits and misses and a hit_rate equal to
\* hits / (hits + misses) x 100, or 0 when there was no get.
C18_HitsAndMissesCountGets ==
    /\ [](/\ hits = returned.value
          /\ misses = returned.absent
          /\ last.op = "get_stats"
             => (/\ last.ret.hits = returned.value
                 /\ last.ret.misses = returned.absent
                 /\ last.ret.hit_rate[2] > 0
                 /\ IF returned.value + returned.absent = 0
                    THEN last.ret.hit_rate[1] = 0
                    ELSE last.ret.hit_rate[1] * (returned.value + returned.absent)
                            = returned.value * 100 * last.ret.hit_rate[2]))
    /\ [][last'.op = "get"
          => IF last'.ret = <<>>
             THEN hits' = hits /\ misses' = misses + 1
             ELSE hits' = hits + 1 /\ misses' = misses]_vars

\* get_stats after one get that hit and one that found its entry expired:
\* one hit, one miss, a hit rate of 100 / 2.
C18_Witness ==
    /\ last.op = "get_stats"
    /\ returned = [value |-> 1, absent |-> 1]
    /\ expirations = 1
    /\ last.ret.hit_rate = <<100, 2>>

\* C37: a get that hits moves the key to the most recently used place and
\* leaves the timestamps: the timestamp of every stored key is the clock
\* reading of its last set, however often the key was read since, no get
\* returns an entry that is more than ttl older than its last set, and no
\* get leaves the entry it asked for stored without returning it.
C37_HitKeepsTimestamp ==
    /\ \A k \in Keys(cache) :
          k \in DOMAIN written /\ k \in DOMAIN timestamps
          /\ timestamps[k] = written[k].at
    /\ last.op = "get"
          => /\ last.ret # <<>>
                => /\ cache[Len(cache)].key = last.key
                   /\ now - written[last.key].at <= ttl
             /\ last.key \in Keys(cache) => last.ret # <<>>

\* Three calls: a set, a get that hit, and a get of the same key, later than
\* ttl after the set, that found the entry expired
C37_Witness ==
    /\ last.op = "get"
    /\ last.n = 3
    /\ last.ret = <<>>
    /\ hits = 1
    /\ expirations = 1
    /\ misses = 1
    /\ ttl > 0
    /\ cache = <<>>

\* The entry is older than ttl
Stale(k) == now - timestamps[k] > ttl

\* C38: set removes no entry because of its age: apart from the old entry of
\* the key itself, the only entry a set removes is the least recently used
\* one, when the cache is full, whether that entry is fresh or stale; every
\* other entry, stale ones included, stays stored with its timestamp and
\* counts toward the size, and expirations stays.
C38_SetIgnoresAge ==
    [][(last'.op = "set" /\ last'.n = last.n + 1 /\ ~last'.raised)
       => LET rest == Without(cache, last'.key)
              full == Len(rest) >= max_size
              lru == Head(rest).key
          IN /\ \A k \in Keys(rest) :
                   IF full /\ k = lru
                   THEN k \notin Keys(cache')
                   ELSE k \in Keys(cache') /\ timestamps'[k] = timestamps[k]
             /\ Len(cache') = IF full THEN Len(rest) ELSE Len(rest) + 1
             /\ get_stats([CM EXCEPT !.cache = cache']).size = Len(cache')
             /\ expirations' = expirations
             /\ evictions' = IF full THEN evictions + 1 ELSE evictions]_vars

\* A set of a third key into a full cache of two has evicted the least
\* recently used entry and left the stale entry of k1, which had been hit
\* after the other key was set.
C38_Witness ==
    /\ last.op = "set"
    /\ last.key = "k3"
    /\ ~last.raised
    /\ max_size = 2
    /\ Keys(cache) = {"k1", "k3"}
    /\ Stale("k1")
    /\ timestamps["k3"] = now
    /\ evictions = 1
    /\ expirations = 0
    /\ hits = 1

\* C39: the value map and the timestamp map hold the same keys, and the
\* value map holds each key once.
C39_SameKeys ==
    /\ Keys(cache) = DOMAIN timestamps
    /\ Cardinality(Keys(cache)) = Len(cache)

\* A cache that holds an entry after an eviction and an expiry
C39_Witness ==
    /\ cache # <<>>
    /\ evictions >= 1
    /\ expirations >= 1
    /\ Keys(cache) = DOMAIN timestamps

(***************************************************************************)
(* SpecThreads: threads sharing one CacheManager.  Every public method     *)
(* runs its body inside `with self.lock:`; a thread in a method is at one  *)
(* of: "acquire" (waiting at the with statement), "locked" (lock taken,    *)
(* body not begun), "body" (the body has read the fields into snap and the *)
(* clock into t), "release" (the body has written the fields, ret is set). *)
(***************************************************************************)
ThreadIds == {"t1", "t2"}

ThreadKeys == {"k1", "k2"}

\* The method calls thread th can make; a thread sets its own name as value
CacheCalls(th) ==
    [op : {"get", "delete"}, key : ThreadKeys, value : {"none"}]
        \cup [op : {"set"}, key : ThreadKeys, value : {th}]
        \cup [op : {"clear", "cleanup_expired", "get_stats", "reset_stats"},
              key : {"none"}, value : {"none"}]

NoCall == [op |-> "none", key |-> "none", value |-> "none"]

\* The locals of a get_recommendations call: none outside such a call
NoWork == [phase |-> "none", n |-> 0, cart_hash |-> <<>>, attempt |-> 0, backoff |-> 0]

\* A thread outside every method
Idle == [pc |-> "idle", call |-> NoCall, snap |-> <<>>, t |-> 0, ret |-> <<>>,
         work |-> NoWork]

\* `with self.lock:` proceeds when no thread holds the lock
lock_free_always(holder) == TRUE

lock_free(holder) == holder = "free"

\* Leaving a with block without releasing the lock
lock_kept(holder, th) == holder

\* `with self.lock:` on leaving the block: the holder releases the lock
lock_after_exit(holder, th) == IF holder = th THEN "free" ELSE holder

\* The method body of call c run on the fields cm at clock reading t:
\* the fields after it and what it returns
run_body(c, cm, t) ==
    CASE c.op = "get" -> get(cm, c.key, t)
      [] c.op = "set" -> [cm |-> set(cm, c.key, c.value, t).cm, ret |-> <<>>]
      [] c.op = "delete" -> delete(cm, c.key)
      [] c.op = "clear" -> [cm |-> clear(cm), ret |-> <<>>]
      [] c.op = "cleanup_expired" -> cleanup_expired(cm, t)
      [] c.op = "get_stats" -> [cm |-> cm, ret |-> get_stats(cm)]
      [] c.op = "reset_stats" -> [cm |-> reset_stats(cm), ret |-> <<>>]

\* Where a thread goes on when the method it called returns: a direct caller
\* is done; get_recommendations goes on after cache_manager.get with the hit
\* (`if cached:`) or with the generation call, and after cache_manager.set
\* with its return.
after_return(thr) ==
    CASE thr.work.phase = "none" -> Idle
      [] thr.work.phase = "lookup" ->
            IF thr.ret # <<>>
            THEN [thr EXCEPT !.pc = "hit", !.call = NoCall]
            ELSE [thr EXCEPT !.pc = "calling", !.call = NoCall, !.work.phase = "generate"]
      [] thr.work.phase = "store" -> [thr EXCEPT !.pc = "stored", !.call = NoCall]

\* last, after a step that neither writes the fields nor returns from
\* get_recommendations: n calls have been made
Step(n) == [op |-> "step", n |-> n, at |-> last.at]

InitThreads ==
    /\ cache = <<>>
    /\ timestamps = <<>>
    /\ max_size \in 1..MaxSize
    /\ ttl = MaxTtl
    /\ InitCounters
    /\ catalog = {}
    /\ now = 0
    /\ written = <<>>
    /\ last = [op |-> "init", n |-> 0, at |-> 0]
    /\ used = <<>>
    /\ returned = [value |-> 0, absent |-> 0]
    /\ results = <<>>
    /\ lock = "free"
    /\ threads = [th \in ThreadIds |-> Idle]

ThreadsOnly == UNCHANGED <<api_calls, api_errors, cache_hits, prescription_filtered,
                           catalog, now, written, used, results>>

FieldsUnchanged == UNCHANGED <<cache, timestamps, max_size, ttl, hits, misses,
                               evictions, expirations>>

\* Thread th calls a method of the cache manager and reaches its with statement.
ThreadCall(th, c) ==
    /\ threads[th].pc = "idle"
    /\ last.n < MaxThreadCalls
    /\ threads' = [threads EXCEPT ![th] = [Idle EXCEPT !.pc = "acquire", !.call = c]]
    /\ last' = Step(last.n + 1)
    /\ FieldsUnchanged
    /\ UNCHANGED <<lock, returned>>
    /\ ThreadsOnly

\* with self.lock: __enter__
ThreadAcquire(th) ==
    /\ threads[th].pc = "acquire"
    /\ lock_free(lock)
    /\ lock' = th
    /\ threads' = [threads EXCEPT ![th].pc = "locked"]
    /\ last' = Step(last.n)
    /\ FieldsUnchanged
    /\ UNCHANGED returned
    /\ ThreadsOnly

\* The body reads the fields and the clock.
ThreadRead(th) ==
    /\ threads[th].pc = "locked"
    /\ threads' = [threads EXCEPT ![th].pc = "body", ![th].snap = CM, ![th].t = now]
    /\ last' = Step(last.n)
    /\ FieldsUnchanged
    /\ UNCHANGED <<lock, returned>>
    /\ ThreadsOnly

\* The body writes the fields it computed from what it read.
ThreadWrite(th) ==
    /\ threads[th].pc = "body"
    /\ \E r \in {run_body(threads[th].call, threads[th].snap, threads[th].t)} :
          /\ SetCM(r.cm)
          /\ threads' = [threads EXCEPT ![th].pc = "release", ![th].snap = <<>>,
                                        ![th].t = 0, ![th].ret = r.ret]
          /\ last' = [op |-> "write", n |-> last.n, thread |-> th, at |-> threads[th].t,
                      call |-> threads[th].call, ret |-> r.ret]
          /\ returned' =
                CASE threads[th].call.op = "get" /\ r.ret = <<>> ->
                        [returned EXCEPT !.absent = @ + 1]
                  [] threads[th].call.op = "get" /\ r.ret # <<>> ->
                        [returned EXCEPT !.value = @ + 1]
                  [] threads[th].call.op = "reset_stats" -> [value |-> 0, absent |-> 0]
                  [] OTHER -> returned
    /\ UNCHANGED lock
    /\ ThreadsOnly

\* with self.lock: __exit__, and the method returns to its caller
ThreadRelease(th) ==
    /\ threads[th].pc = "release"
    /\ lock' = lock_after_exit(lock, th)
    /\ threads' = [threads EXCEPT ![th] = after_return(threads[th])]
    /\ last' = Step(last.n)
    /\ FieldsUnchanged
    /\ UNCHANGED returned
    /\ ThreadsOnly

\* Time passes while threads run.
ThreadTick ==
    /\ now < MaxTime
    /\ now' = now + 1
    /\ last' = Step(last.n)
    /\ FieldsUnchanged
    /\ UNCHANGED <<api_calls, api_errors, cache_hits, prescription_filtered,
                   catalog, written, used, returned, results, lock, threads>>

NextThreads ==
    \/ \E th \in ThreadIds : \E c \in CacheCalls(th) : ThreadCall(th, c)
    \/ \E th \in ThreadIds : ThreadAcquire(th)
    \/ \E th \in ThreadIds : ThreadRead(th)
    \/ \E th \in ThreadIds : ThreadWrite(th)
    \/ \E th \in ThreadIds : ThreadRelease(th)
    \/ ThreadTick

SpecThreads == InitThreads /\ [][NextThreads]_vars

\* The threads inside a with block
InBlock == {th \in ThreadIds : threads[th].pc \in {"locked", "body", "release"}}

\* C19: with several threads calling get, set, delete, clear,
\* cleanup_expired, get_stats and reset_stats on one CacheManager, at most one
\* thread is inside a method body at a time, the cache never holds more than
\* max_size entries, hits and misses count the gets made since the last
\* reset_stats, and every method body takes effect at once: what it writes and
\* returns is what the method does, run alone, on the fields as they are when
\* it writes, at a clock reading not before that of the body run before it.
\* So every interleaving has the outcome of the methods run one after another
\* in the order of their writes.
C19_OperationsAtomic ==
    /\ [](/\ Len(cache) <= max_size
          /\ hits = returned.value
          /\ misses = returned.absent
          /\ Cardinality(InBlock) <= 1
          /\ \A th \in InBlock : lock = th)
    /\ [][last'.op = "write"
          => (/\ CM' = run_body(last'.call, CM, last'.at).cm
              /\ last'.ret = run_body(last'.call, CM, last'.at).ret
              /\ last.at <= last'.at)]_vars

\* One thread has hit an entry and is about to release the lock while the
\* other waits at its with statement.
C19_Witness ==
    /\ last.op = "write"
    /\ last.call.op = "get"
    /\ last.ret # <<>>
    /\ hits = 1
    /\ \E th \in ThreadIds, other \in ThreadIds :
          /\ th # other
          /\ lock = th
          /\ threads[th].pc = "release"
          /\ threads[other].pc = "acquire"

(***************************************************************************)
(* SpecWorkers: worker threads calling get_recommendations on one          *)
(* ClaudeClient.  The call goes through cache_manager.get (the with block  *)
(* of SpecThreads), then either the hit branch, or the generation attempts *)
(* of _call_api ("calling": messages.create is in progress; "sleeping":    *)
(* time.sleep(backoff) is in progress), the handling of the response and   *)
(* cache_manager.set.  A result dict is an object: results holds it under  *)
(* the number of the call that made it, and the cache holds that number.   *)
(* The clock stands still in these runs: no entry expires during them (the *)
(* expiry of entries is the matter of SpecCache and SpecThreads).          *)
(***************************************************************************)
\* The carts the workers call with: two fingerprints
WorkerCarts == {<<ItemA>>, <<ItemA, ItemB>>}

\* What the generation service and the products table can do in one attempt:
\* the attempt's outcome and, when it returns text, the text and what the
\* catalog query does
WorkerAttempts ==
    [o : AttemptOutcomes \ {"text"}, text : {EmptyText}, db : {"ok"}]
        \cup [o : {"text"}, text : {EmptyText}, db : {"ok"}]
        \cup [o : {"text"}, text : {JsonText(<<Rec(Almax)>>)}, db : {"ok", "query_error"}]

\* The products table of the workers: one product, sold without prescription
WorkerCatalog == {[name |-> Almax, requires_prescription |-> 0]}

InitWorkers ==
    /\ cache = <<>>
    /\ timestamps = <<>>
    /\ max_size \in 1..MaxSize
    /\ ttl = MaxTtl
    /\ InitCounters
    /\ catalog = WorkerCatalog
    /\ now = 0
    /\ written = <<>>
    /\ last = [op |-> "init", n |-> 0, at |-> 0]
    /\ used = <<>>
    /\ returned = [value |-> 0, absent |-> 0]
    /\ results = <<>>
    /\ lock = "free"
    /\ threads = [th \in ThreadIds |-> Idle]

WorkerOnly == UNCHANGED <<catalog, now, written, used, returned, lock>>

\* last, when thread th returns ret from the call whose locals are work
Returned(th, work, ret) ==
    [op |-> "return", n |-> last.n, thread |-> th, at |-> last.at,
     call_n |-> work.n, ret |-> ret]

\* Thread th calls get_recommendations(cart_items, force_refresh) with a cart
\* that is not empty: up to `cached = self.cache_manager.get(cart_hash)`
\* reaching the with statement, or to the generation call.
WorkerCall(th, cart_items, force_refresh) ==
    /\ threads[th].pc = "idle"
    /\ last.n < MaxWorkerCalls
    /\ \E cart_hash \in {_generate_cart_hash(cart_items)} :
          threads' = [threads EXCEPT ![th] =
             IF CACHE_ENABLED /\ ~force_refresh
             THEN [Idle EXCEPT !.pc = "acquire",
                               !.call = [op |-> "get", key |-> cart_hash, value |-> "none"],
                               !.work = [phase |-> "lookup", n |-> last.n + 1,
                                         cart_hash |-> cart_hash, attempt |-> 0,
                                         backoff |-> initial_backoff]]
             ELSE [Idle EXCEPT !.pc = "calling",
                               !.work = [phase |-> "generate", n |-> last.n + 1,
                                         cart_hash |-> cart_hash, attempt |-> 0,
                                         backoff |-> initial_backoff]]]
    /\ last' = Step(last.n + 1)
    /\ FieldsUnchanged
    /\ ClientUnchanged
    /\ UNCHANGED results
    /\ WorkerOnly

\* if cached: self.cache_hits += 1; cached["source"] = "cache"; return cached
WorkerHit(th) ==
    /\ threads[th].pc = "hit"
    /\ cache_hits' = cache_hits + 1
    /\ results' = [results EXCEPT ![threads[th].ret[1]].source = "cache"]
    /\ threads' = [threads EXCEPT ![th] = Idle]
    /\ last' = Returned(th, threads[th].work, threads[th].ret)
    /\ FieldsUnchanged
    /\ UNCHANGED <<api_calls, api_errors, prescription_filtered>>
    /\ WorkerOnly

\* What get_recommendations does with the response text once _call_api has
\* returned it: parse, validate, filter, build the result.  Gives the
\* increments of prescription_filtered and api_errors and result (<<dict>>,
\* or <<>> when the call returns None).
handle_response(text, db, cat, cart_hash, t) ==
    LET none == [result |-> <<>>, counted |-> 0, api_errors |-> 0]
    IN IF text.kind = "empty" THEN none
       ELSE LET parsed == parse_recommendations(text)
            IN IF parsed = <<>> THEN none
               ELSE IF validate_raises(parsed[1])
               THEN [result |-> <<>>, counted |-> 0, api_errors |-> 1]
               ELSE IF ~validate_recommendations(parsed[1]) THEN none
               ELSE LET f == _filter_prescription_products(
                                 parsed[1].recommendations, cat, db)
                    IN IF f.raised
                       THEN [result |-> <<>>, counted |-> f.counted, api_errors |-> 1]
                       ELSE IF f.filtered = <<>>
                       THEN [result |-> <<>>, counted |-> f.counted, api_errors |-> 0]
                       ELSE [result |-> <<make_result(with_filtered(parsed[1], f.filtered),
                                                      cart_hash, t)>>,
                             counted |-> f.counted, api_errors |-> 0]

\* One messages.create(...) attempt of thread th ends with outcome o; when it
\* returns text, the text is handled and, with a result made, the thread
\* reaches the with statement of cache_manager.set(cart_hash, result).
WorkerAttempt(th, o, text, db) ==
    /\ threads[th].pc = "calling"
    /\ LET work == threads[th].work
           h == handle_response(text, db, catalog, work.cart_hash, now)
           none == /\ threads' = [threads EXCEPT ![th] = Idle]
                   /\ last' = Returned(th, work, <<>>)
                   /\ UNCHANGED results
       IN CASE o = "text" /\ h.result # <<>> ->
                 /\ api_calls' = api_calls + 1
                 /\ prescription_filtered' = prescription_filtered + h.counted
                 /\ results' = [k \in (DOMAIN results) \cup {work.n} |->
                                   IF k = work.n THEN h.result[1] ELSE results[k]]
                 /\ threads' = [threads EXCEPT
                       ![th].pc = IF CACHE_ENABLED THEN "acquire" ELSE "stored",
                       ![th].call = [op |-> "set", key |-> work.cart_hash, value |-> work.n],
                       ![th].work.phase = "store"]
                 /\ last' = Step(last.n)
                 /\ UNCHANGED <<api_errors, cache_hits>>
            [] o = "text" /\ h.result = <<>> ->
                 /\ api_calls' = api_calls + 1
                 /\ prescription_filtered' = prescription_filtered + h.counted
                 /\ api_errors' = api_errors + h.api_errors
                 /\ none
                 /\ UNCHANGED cache_hits
            [] o = "no_content" ->
                 /\ api_calls' = api_calls + 1
                 /\ api_errors' = api_errors + 1
                 /\ none
                 /\ UNCHANGED <<cache_hits, prescription_filtered>>
            [] retried(o) /\ sleeps_after(work.attempt) ->
                 /\ threads' = [threads EXCEPT ![th].pc = "sleeping"]
                 /\ last' = Step(last.n)
                 /\ UNCHANGED results
                 /\ ClientUnchanged
            [] retried(o) /\ ~sleeps_after(work.attempt) /\ in_range(work.attempt + 1) ->
                 /\ threads' = [threads EXCEPT ![th].work.attempt = @ + 1]
                 /\ last' = Step(last.n)
                 /\ UNCHANGED results
                 /\ ClientUnchanged
            [] retried(o) /\ ~sleeps_after(work.attempt) /\ ~in_range(work.attempt + 1) ->
                 /\ api_errors' = api_errors + 1
                 /\ none
                 /\ UNCHANGED <<api_calls, cache_hits, prescription_filtered>>
            [] o \in {"api_error", "exception"} ->
                 /\ api_errors' = api_errors + 1
                 /\ none
                 /\ UNCHANGED <<api_calls, cache_hits, prescription_filtered>>
    /\ FieldsUnchanged
    /\ WorkerOnly

\* time.sleep(backoff) returns; backoff *= 2 and the next attempt begins.
WorkerWake(th) ==
    /\ threads[th].pc = "sleeping"
    /\ threads' = [threads EXCEPT ![th].pc = "calling",
                                  ![th].work.attempt = @ + 1,
                                  ![th].work.backoff = next_backoff(@)]
    /\ last' = Step(last.n)
    /\ FieldsUnchanged
    /\ ClientUnchanged
    /\ UNCHANGED results
    /\ WorkerOnly

\* return result, after cache_manager.set has returned
WorkerReturn(th) ==
    /\ threads[th].pc = "stored"
    /\ threads' = [threads EXCEPT ![th] = Idle]
    /\ last' = Returned(th, threads[th].work, <<threads[th].work.n>>)
    /\ FieldsUnchanged
    /\ ClientUnchanged
    /\ UNCHANGED results
    /\ WorkerOnly

NextWorkers ==
    \/ \E th \in ThreadIds, cart_items \in WorkerCarts, force_refresh \in BOOLEAN :
          WorkerCall(th, cart_items, force_refresh)
    \/ \E th \in ThreadIds : ThreadAcquire(th)
    \/ \E th \in ThreadIds : ThreadRead(th)
    \/ \E th \in ThreadIds : ThreadWrite(th)
    \/ \E th \in ThreadIds : ThreadRelease(th)
    \/ \E th \in ThreadIds : WorkerHit(th)
    \/ \E th \in ThreadIds, a \in WorkerAttempts : WorkerAttempt(th, a.o, a.text, a.db)
    \/ \E th \in ThreadIds : WorkerWake(th)
    \/ \E th \in ThreadIds : WorkerReturn(th)

SpecWorkers == InitWorkers /\ [][NextWorkers]_vars

\* The threads with a generation call or a backoff sleep in progress
InGateway == {th \in ThreadIds : threads[th].pc \in {"calling", "sleeping"}}

\* C20: no thread holds the cache lock while its generation call or backoff
\* sleep is in progress; the lock is held only by a thread inside the with
\* block of cache_manager.get or cache_manager.set and is free whenever no
\* thread is inside one, so a thread in the gateway delays no other thread's
\* cache operation; get_recommendations takes the lock for the lookup, has
\* released it when the lookup has returned, and takes it again only for the
\* store.
C20_NoLockAcrossGeneration ==
    /\ [](/\ \A th \in InGateway : lock # th
          /\ \A th \in ThreadIds :
                lock = th => (th \in InBlock /\ threads[th].call.op \in {"get", "set"})
          /\ InBlock = {} => lock = "free")
    /\ [][/\ (lock' # lock /\ lock' # "free")
             => \/ (threads'[lock'].work.phase = "lookup" /\ threads'[lock'].call.op = "get")
                \/ (threads'[lock'].work.phase = "store" /\ threads'[lock'].call.op = "set")
          /\ \A th \in ThreadIds :
                (/\ threads[th].work.phase = "lookup"
                 /\ threads[th].pc # threads'[th].pc
                 /\ threads'[th].pc \in {"hit", "calling"})
                   => (lock = th /\ lock' = "free")]_vars

\* One thread sleeps between two attempts while the other is inside the with
\* block of the lookup, holding the lock.
C20_Witness ==
    \E th \in ThreadIds, other \in ThreadIds :
        /\ threads[th].pc = "sleeping"
        /\ threads[th].work.attempt = 1
        /\ threads[other].pc = "body"
        /\ threads[other].call.op = "get"
        /\ lock = other

\* The result dicts the cache holds
StoredResults == {cache[i].value : i \in DOMAIN cache} \cap DOMAIN results

\* C33: a result dict, once made and stored, is changed by no later step of
\* any call: the entry the cache holds, its source field included, stays
\* what was stored when a get_recommendations call hits it, and so does the
\* dict an earlier call returned.
C33_StoredValueNeverModified ==
    [][/\ \A n \in StoredResults : results'[n] = results[n]
       /\ \A n \in DOMAIN results : results'[n] = results[n]]_vars

\* C35: when the call that invoked the generation service returns its
\* result to the thread that made it, the result has source "api", whatever
\* the other thread did in between.
C35_GeneratingCallReadsApi ==
    (/\ last.op = "return"
     /\ last.ret # <<>>
     /\ last.ret[1] = last.call_n)
        => results[last.call_n].source = "api"

(***************************************************************************)
(* SpecCounters: worker threads calling get_recommendations on one         *)
(* ClaudeClient, with the statements `self.<counter> += 1` of the client   *)
(* taken as they execute: the attribute is read, one is added, the         *)
(* attribute is written, and no lock is held meanwhile, so another thread  *)
(* can run between the read and the write.  cache_manager.get and          *)
(* cache_manager.set run under the manager's lock and are one step each.   *)
(* The tally in `last` counts what happened: the attempts that returned a  *)
(* response, the failures of _call_api and the calls that returned from    *)
(* the hit branch.  The products table answers in these runs.              *)
(***************************************************************************)
MaxCounterCalls == 3

\* What an attempt does in these runs: it returns a response, times out, or
\* is rejected
CounterOutcomes == {"text", "timeout", "api_error"}

\* The response texts of these runs
CounterTexts == {EmptyText, JsonText(<<Rec(Almax)>>)}

\* A thread outside get_recommendations.  reg: the value read from the
\* counter that is being incremented; next: where the thread goes on after
\* the increment; cached: the result the lookup found.
Resting ==
    [pc |-> "idle", n |-> 0, attempt |-> 0, counter |-> "none", reg |-> 0,
     next |-> "idle", cached |-> 0]

Tally(n, successes, failures, hit_returns) ==
    [op |-> "tally", n |-> n, successes |-> successes, failures |-> failures,
     hit_returns |-> hit_returns]

\* The thread reaches `self.<counter> += 1`
Increment(thr, counter, next) ==
    [thr EXCEPT !.pc = "load", !.counter = counter, !.next = next]

\* An increment that adds one to the value the attribute has when it is
\* written
incremented_afresh(reg, current) == current + 1

\* The value the statement writes back: the one it read, plus one
incremented(reg, current) == reg + 1

InitClientCounters ==
    /\ cache = <<>>
    /\ timestamps = <<>>
    /\ max_size = MaxSize
    /\ ttl = MaxTtl
    /\ InitCounters
    /\ catalog = WorkerCatalog
    /\ now = 0
    /\ written = <<>>
    /\ last = Tally(0, 0, 0, 0)
    /\ used = <<>>
    /\ returned = [value |-> 0, absent |-> 0]
    /\ results = <<>>
    /\ lock = "free"
    /\ threads = [th \in ThreadIds |-> Resting]

CountersOnly == UNCHANGED <<max_size, ttl, catalog, now, written, used, returned, lock>>

\* Thread th calls get_recommendations(<<ItemA>>, force_refresh): up to the
\* return of cache_manager.get, when the lookup is made
CounterCall(th, force_refresh) ==
    /\ threads[th].pc = "idle"
    /\ last.n < MaxCounterCalls
    /\ LET cart_hash == _generate_cart_hash(<<ItemA>>)
           begun == [Resting EXCEPT !.pc = "calling", !.n = last.n + 1]
       IN IF looks_up(force_refresh)
          THEN LET g == get(CM, cart_hash, now)
               IN /\ SetCM(g.cm)
                  /\ threads' = [threads EXCEPT ![th] =
                        IF g.ret # <<>>
                        THEN Increment([begun EXCEPT !.cached = g.ret[1]], "cache_hits", "hit")
                        ELSE begun]
          ELSE /\ UNCHANGED <<cache, timestamps, hits, misses, evictions, expirations>>
               /\ threads' = [threads EXCEPT ![th] = begun]
    /\ last' = [last EXCEPT !.n = @ + 1]
    /\ ClientUnchanged
    /\ UNCHANGED results
    /\ CountersOnly

\* self.<counter> += 1, first half: the attribute is read
CounterLoad(th) ==
    /\ threads[th].pc = "load"
    /\ threads' = [threads EXCEPT
          ![th].pc = "store",
          ![th].reg = CASE threads[th].counter = "api_calls" -> api_calls
                        [] threads[th].counter = "api_errors" -> api_errors
                        [] threads[th].counter = "cache_hits" -> cache_hits]
    /\ FieldsUnchanged
    /\ ClientUnchanged
    /\ UNCHANGED <<results, last>>
    /\ CountersOnly

\* self.<counter> += 1, second half: the sum is written to the attribute
CounterStore(th) ==
    /\ threads[th].pc = "store"
    /\ LET thr == threads[th]
       IN /\ api_calls' = IF thr.counter = "api_calls"
                          THEN incremented(thr.reg, api_calls) ELSE api_calls
          /\ api_errors' = IF thr.counter = "api_errors"
                           THEN incremented(thr.reg, api_errors) ELSE api_errors
          /\ cache_hits' = IF thr.counter = "cache_hits"
                           THEN incremented(thr.reg, cache_hits) ELSE cache_hits
          /\ threads' = [threads EXCEPT ![th].pc = thr.next, ![th].counter = "none",
                                        ![th].reg = 0, ![th].next = "idle"]
    /\ FieldsUnchanged
    /\ UNCHANGED <<prescription_filtered, results, last>>
    /\ CountersOnly

\* cached["source"] = "cache"; return cached
CounterHit(th) ==
    /\ threads[th].pc = "hit"
    /\ results' = [results EXCEPT ![threads[th].cached].source = "cache"]
    /\ threads' = [threads EXCEPT ![th] = Resting]
    /\ last' = [last EXCEPT !.hit_returns = @ + 1]
    /\ FieldsUnchanged
    /\ ClientUnchanged
    /\ CountersOnly

\* One messages.create(...) attempt of thread th ends with outcome o (a
\* backoff sleep that follows has ended when the next attempt begins).
CounterAttempt(th, o) ==
    /\ threads[th].pc = "calling"
    /\ LET thr == threads[th]
       IN CASE o = "text" ->
                 /\ threads' = [threads EXCEPT ![th] = Increment(thr, "api_calls", "handle")]
                 /\ last' = [last EXCEPT !.successes = @ + 1]
            [] retried(o) /\ in_range(thr.attempt + 1) ->
                 /\ threads' = [threads EXCEPT ![th].attempt = @ + 1]
                 /\ UNCHANGED last
            [] OTHER ->
                 /\ threads' = [threads EXCEPT ![th] =
                                   Increment(thr, "api_errors", "return_none")]
                 /\ last' = [last EXCEPT !.failures = @ + 1]
    /\ FieldsUnchanged
    /\ ClientUnchanged
    /\ UNCHANGED results
    /\ CountersOnly

\* From `response_text = response.content[0].text` to the return of
\* get_recommendations: the text is handled and a result made is stored
CounterHandle(th, text) ==
    /\ threads[th].pc = "handle"
    /\ LET cart_hash == _generate_cart_hash(<<ItemA>>)
           h == handle_response(text, "ok", catalog, cart_hash, now)
       IN IF h.result # <<>>
          THEN /\ SetCM(set(CM, cart_hash, threads[th].n, now).cm)
               /\ results' = [k \in (DOMAIN results) \cup {threads[th].n} |->
                                 IF k = threads[th].n THEN h.result[1] ELSE results[k]]
          ELSE /\ UNCHANGED <<cache, timestamps, hits, misses, evictions, expirations>>
               /\ UNCHANGED results
    /\ threads' = [threads EXCEPT ![th] = Resting]
    /\ ClientUnchanged
    /\ UNCHANGED last
    /\ CountersOnly

\* return None, after _call_api has returned None
CounterReturnNone(th) ==
    /\ threads[th].pc = "return_none"
    /\ threads' = [threads EXCEPT ![th] = Resting]
    /\ FieldsUnchanged
    /\ ClientUnchanged
    /\ UNCHANGED <<results, last>>
    /\ CountersOnly

NextCounters ==
    \/ \E th \in ThreadIds, force_refresh \in BOOLEAN : CounterCall(th, force_refresh)
    \/ \E th \in ThreadIds : CounterLoad(th)
    \/ \E th \in ThreadIds : CounterStore(th)
    \/ \E th \in ThreadIds : CounterHit(th)
    \/ \E th \in ThreadIds, o \in CounterOutcomes : CounterAttempt(th, o)
    \/ \E th \in ThreadIds, text \in CounterTexts : CounterHandle(th, text)
    \/ \E th \in ThreadIds : CounterReturnNone(th)

SpecCounters == InitClientCounters /\ [][NextCounters]_vars

\* Every call that was made has returned.
AllReturned == \A th \in ThreadIds : threads[th].pc = "idle"

\* C36: once every call of the worker threads has returned, api_calls is
\* the number of generation attempts that returned a response, api_errors
\* the number of failures of the gateway and cache_hits the number of calls
\* that returned from the hit branch: no increment is lost.
C36_NoIncrementLost ==
    AllReturned
        => /\ api_calls = last.successes
           /\ api_errors = last.failures
           /\ cache_hits = last.hit_returns

\* The steps of thread th inside a get_recommendations call
WorkerSteps(th) ==
    \/ ThreadAcquire(th)
    \/ ThreadRead(th)
    \/ ThreadWrite(th)
    \/ ThreadRelease(th)
    \/ WorkerHit(th)
    \/ \E a \in WorkerAttempts : WorkerAttempt(th, a.o, a.text, a.db)
    \/ WorkerWake(th)
    \/ WorkerReturn(th)

\* The threads call with the same cart, so that they meet on one key.
NextWorkersFair ==
    \/ \E th \in ThreadIds, force_refresh \in BOOLEAN :
          WorkerCall(th, <<ItemA>>, force_refresh)
    \/ \E th \in ThreadIds : WorkerSteps(th)

\* The workers where a thread inside a call keeps running: every generation
\* attempt and every query of the products table returns or raises, every
\* sleep ends, and a thread that can take the lock, run the body of the with
\* block or return does so.
SpecWorkersFair ==
    /\ InitWorkers
    /\ [][NextWorkersFair]_vars
    /\ \A th \in ThreadIds : WF_vars(WorkerSteps(th))

\* C24: every get_recommendations call returns, a result or None, after at
\* most max_retries generation attempts and max_retries - 1 sleeps, when
\* every generation attempt and every query of the products table returns or
\* raises.
C24_CallTerminates ==
    /\ \A th \in ThreadIds : (threads[th].pc # "idle") ~> (threads[th].pc = "idle")
    /\ [](\A th \in ThreadIds :
             /\ threads[th].pc \in {"calling", "sleeping"}
                   => threads[th].work.attempt < max_retries
             /\ threads[th].pc = "sleeping" => threads[th].work.attempt < max_retries - 1)

\* One thread's call has returned None while the other thread makes the last
\* attempt of its call, after two sleeps
C24_Witness ==
    \E th \in ThreadIds, other \in ThreadIds :
        /\ last.op = "return"
        /\ last.thread = th
        /\ last.ret = <<>>
        /\ threads[th].pc = "idle"
        /\ threads[other].pc = "calling"
        /\ threads[other].work.attempt = max_retries - 1
        /\ threads[other].work.backoff = initial_backoff * 4

(***************************************************************************)
(* SpecCalls: one get_recommendations call of a client, after at most one  *)
(* earlier call that was answered at once, some time ago, over every way   *)
(* the generation attempts, the response text and the products table can   *)
(* turn out, and over carts whose items lack keys or hold None or values   *)
(* of other types.                                                         *)
(***************************************************************************)
\* What the attempts of one _call_api can be: every attempt before the one
\* that ends the loop times out or loses the connection (the attempts after
\* the end are never made and stand as "text").
CallTraces ==
    {o \in [1..max_retries -> AttemptOutcomes] :
        \A i \in 1..(max_retries - 1) :
            o[i] \notin {"timeout", "connection"} =>
                \A j \in (i + 1)..max_retries : o[j] = "text"}

\* An object whose recommendation has a priority that is not allowed
InvalidText == JsonText(<<[Rec(Almax) EXCEPT !.priority = "urgent"]>>)

\* The response texts: empty, prose, an object with an invalid priority, and
\* objects with one and two recommendations.
CallTexts ==
    {EmptyText, ProseText, InvalidText,
     JsonText(<<Rec(Almax)>>),
     JsonText(<<Rec(Almax), Rec(Tramadol)>>)}

\* _call_api returns the response text.
answered(outcomes) ==
    \E i \in 1..max_retries :
        /\ outcomes[i] = "text"
        /\ \A j \in 1..(i - 1) : outcomes[j] \in {"timeout", "connection"}

\* The text counts when it is returned, the products table when the text is
\* an object.
CallEnvs ==
    {Env(o, EmptyText, "ok") : o \in {c \in CallTraces : ~answered(c)}}
    \cup {Env(o, text, "ok") :
            o \in {c \in CallTraces : answered(c)},
            text \in {x \in CallTexts : parse_recommendations(x) = <<>>}}
    \cup {Env(o, text, db) :
            o \in {c \in CallTraces : answered(c)},
            text \in {x \in CallTexts : parse_recommendations(x) # <<>>},
            db \in FilterDbStates}

\* 'price': None
ItemNullPrice == [ItemA EXCEPT !.price = 0, !.price_type = "NoneType"]

\* 'price': '5'
ItemTextPrice == [ItemA EXCEPT !.price_type = "str"]

ItemNullCategory == [ItemA EXCEPT !.category = None]

ItemNullName == [ItemA EXCEPT !.name = None]

ItemIntIngredient == [ItemA EXCEPT !.active_ingredient = Int42]

ItemNoKeys == [ItemA EXCEPT !.keys = {}]

CallCarts ==
    {<<>>, <<ItemA>>, <<ItemA, ItemB>>, <<ItemNullPrice>>, <<ItemTextPrice>>,
     <<ItemNullCategory>>, <<ItemNullName>>, <<ItemIntIngredient>>, <<ItemNoKeys>>,
     <<ItemNullName, ItemA>>, <<ItemA, ItemIntIngredient>>}

\* The carts of the earlier call
EarlierCarts == {<<ItemA>>, <<ItemNullName>>, <<ItemNoKeys>>}

InitCalls ==
    /\ cache = <<>>
    /\ timestamps = <<>>
    /\ max_size \in 0..MaxSize
    /\ ttl = MaxTtl
    /\ InitCounters
    /\ catalog \in SpecCatalogs
    /\ now = 0
    /\ written = <<>>
    /\ last = [op |-> "init", n |-> 0]
    /\ InitSequential

\* An earlier get_recommendations(cart_items) of the session, answered at
\* once with one recommendation
EarlierCall(cart_items) ==
    /\ last.op = "init"
    /\ SetST(get_recommendations(ST, cart_items, FALSE,
                                 Env(Answered, JsonText(<<Rec(Almax)>>), "ok"),
                                 catalog, now).st)
    /\ last' = [op |-> "earlier", n |-> 0]
    /\ UNCHANGED <<catalog, now, written, used, returned, results, lock, threads>>

\* Time passes after the earlier call.
TimePasses ==
    /\ last.op = "earlier"
    /\ now < MaxTime
    /\ now' = now + 1
    /\ ClientUnchanged
    /\ UNCHANGED <<cache, timestamps, max_size, ttl, hits, misses, evictions,
                   expirations, catalog, written, last, used, returned, results, lock,
                   threads>>

\* ClaudeClient.get_recommendations(cart_items, force_refresh), with what the
\* generation service and the products table do during the call
CallGetRecommendations(cart_items, force_refresh, env) ==
    /\ last.op # "get_recommendations"
    /\ \E r \in {get_recommendations(ST, cart_items, force_refresh, env, catalog, now)} :
          /\ SetST(r.st)
          /\ last' = [op |-> "get_recommendations", n |-> 1,
                      cart_items |-> cart_items, force_refresh |-> force_refresh,
                      env |-> env, ret |-> r.ret, stored |-> r.stored,
                      attempts |-> r.attempts, looked_up |-> r.looked_up,
                      api |-> r.api, raised |-> r.raised]
    /\ UNCHANGED <<catalog, now, written, used, returned, results, lock, threads>>

NextCalls ==
    \/ \E cart_items \in EarlierCarts : EarlierCall(cart_items)
    \/ TimePasses
    \/ \E cart_items \in CallCarts, force_refresh \in BOOLEAN, env \in CallEnvs :
          CallGetRecommendations(cart_items, force_refresh, env)

SpecCalls == InitCalls /\ [][NextCalls]_vars

\* The step is a _call_api
CallsApi == last'.op = "get_recommendations" /\ last'.api.attempts > 0

\* The first k attempts time out or lose the connection.
FirstFail(outcomes, k) == \A i \in 1..k : outcomes[i] \in {"timeout", "connection"}

\* initial_backoff * 2^(i-1) for i = 1..k
RECURSIVE Backoffs(_)
Backoffs(k) == IF k = 0 THEN <<>> ELSE Append(Backoffs(k - 1), initial_backoff * 2 ^ (k - 1))

\* C21: when the first k attempts (k < max_retries) time out or lose the
\* connection and the next one succeeds, _call_api makes exactly k + 1
\* attempts, sleeps initial_backoff * 2^(i-1) before the i-th retry, returns
\* the text, adds one to api_calls and nothing to api_errors; when the text
\* parses, validates and passes the filter, get_recommendations returns a
\* result with source "api".
C21_RetriesThenSucceeds ==
    [][\A k \in 0..(max_retries - 1) :
          (/\ CallsApi
           /\ FirstFail(last'.env.outcomes, k)
           /\ last'.env.outcomes[k + 1] = "text")
          => /\ last'.api.attempts = k + 1
             /\ last'.api.sleeps = Backoffs(k)
             /\ last'.api.returned
             /\ last'.api.api_calls = 1
             /\ last'.api.api_errors = 0
             /\ api_calls' = api_calls + 1
             /\ ((last'.env.text \in {JsonText(<<Rec(Almax)>>),
                                      JsonText(<<Rec(Almax), Rec(Tramadol)>>)}
                  /\ last'.env.db = "ok" /\ max_size > 0
                  /\ [name |-> Almax, requires_prescription |-> 0] \in catalog)
                 => /\ last'.ret # <<>>
                    /\ last'.ret[1].source = "api"
                    /\ api_errors' = api_errors)]_vars

\* Two failed attempts, sleeps of 1 and 2, then a result from the service
C21_Witness ==
    /\ last.op = "get_recommendations"
    /\ last.api.attempts = 3
    /\ last.api.sleeps = <<1, 2>>
    /\ last.ret # <<>>
    /\ last.ret[1].source = "api"
    /\ api_calls = 1
    /\ api_errors = 0

\* C22: when an attempt is rejected (an API error that is neither a timeout
\* nor a connection error), _call_api makes no further attempt and no sleep
\* after it, adds one to api_errors and nothing to api_calls, and
\* get_recommendations returns None; rejected at once, it makes exactly one
\* attempt and no sleep at all.
C22_RejectionIsNotRetried ==
    [][\A k \in 0..(max_retries - 1) :
          (/\ CallsApi
           /\ FirstFail(last'.env.outcomes, k)
           /\ last'.env.outcomes[k + 1] = "api_error")
          => /\ last'.api.attempts = k + 1
             /\ last'.api.sleeps = Backoffs(k)
             /\ ~last'.api.returned
             /\ last'.api.api_errors = 1
             /\ last'.api.api_calls = 0
             /\ api_errors' = api_errors + 1
             /\ api_calls' = api_calls
             /\ last'.ret = <<>>
             /\ ~last'.raised]_vars

\* A call rejected at the first attempt
C22_Witness ==
    /\ last.op = "get_recommendations"
    /\ last.env.outcomes[1] = "api_error"
    /\ last.api.attempts = 1
    /\ last.api.sleeps = <<>>
    /\ last.ret = <<>>
    /\ api_errors = 1
    /\ api_calls = 0

\* C23: when every attempt times out or loses the connection, _call_api
\* stops after exactly max_retries attempts with max_retries - 1 sleeps, none
\* after the last attempt, adds one to api_errors in total and returns None;
\* no _call_api makes more than max_retries attempts.
C23_StopsAfterMaxRetries ==
    [][last'.op = "get_recommendations"
          => /\ last'.api.attempts <= max_retries
             /\ Len(last'.api.sleeps) <= max_retries - 1
             /\ (CallsApi /\ FirstFail(last'.env.outcomes, max_retries))
                => /\ last'.api.attempts = max_retries
                   /\ last'.api.sleeps = Backoffs(max_retries - 1)
                   /\ ~last'.api.returned
                   /\ last'.api.api_errors = 1
                   /\ last'.api.api_calls = 0
                   /\ api_errors' = api_errors + 1
                   /\ api_calls' = api_calls
                   /\ last'.ret = <<>>]_vars

\* Three attempts that all time out or lose the connection
C23_Witness ==
    /\ last.op = "get_recommendations"
    /\ FirstFail(last.env.outcomes, max_retries)
    /\ last.api.attempts = max_retries
    /\ Len(last.api.sleeps) = max_retries - 1
    /\ api_errors = 1

\* C25: each _call_api changes exactly one of the two counters, by exactly
\* one: api_calls when it returns the text, api_errors when it returns None,
\* also when the service responds and the text cannot be taken from the
\* response.
C25_ExactlyOneCounterPerCall ==
    [][CallsApi
          => /\ last'.api.api_calls + last'.api.api_errors = 1
             /\ last'.api.returned <=> last'.api.api_calls = 1]_vars

\* C26: for every non-empty cart, whatever its items lack or hold, and every
\* outcome of the generation attempts, the parser, the validator, the filter
\* and the products table, get_recommendations returns a result or None and
\* no exception reaches its caller.
C26_NeverPropagatesException ==
    (last.op = "get_recommendations" /\ last.cart_items # <<>>) => ~last.raised

(***************************************************************************)
(* Claims on what a get_recommendations call leaves behind.                *)
(***************************************************************************)
\* The step is a get_recommendations call of the client
CallStep == last'.op = "get_recommendations" /\ last'.n = last.n + 1

\* The cache's entries with their timestamps
Entries == <<cache, timestamps>>

\* C27: get_recommendations on an empty cart returns None and changes
\* nothing: it makes no cache lookup (hits and misses stay), adds and removes
\* no entry, makes no generation attempt, and leaves api_calls, api_errors,
\* cache_hits and prescription_filtered.
C27_EmptyCartNoSideEffect ==
    [][(CallStep /\ last'.cart_items = <<>>)
       => /\ last'.ret = <<>>
          /\ ~last'.looked_up
          /\ last'.attempts = 0
          /\ last'.stored = <<>>
          /\ UNCHANGED <<cache, timestamps, max_size, ttl, hits, misses, evictions,
                         expirations, api_calls, api_errors, cache_hits,
                         prescription_filtered, written>>]_vars

\* A call with an empty cart on a client that holds an entry and has made a
\* generation call
C27_Witness ==
    /\ Called
    /\ last.cart_items = <<>>
    /\ last.ret = <<>>
    /\ cache # <<>>
    /\ api_calls > 0
    /\ misses > 0

\* The generation call fails, the response cannot be parsed or is
\* structurally invalid, or the filter leaves no candidate.
FailedGeneration(env, cat) ==
    \/ ~answered(env.outcomes)
    \/ env.text \in {EmptyText, ProseText, InvalidText}
    \/ LET f == _filter_prescription_products(env.text.recommendations, cat, env.db)
       IN ~f.raised /\ f.filtered = <<>>

\* The fields of the manager once the call's lookup, if it makes one, is done
AfterLookup(cart_items, force_refresh) ==
    IF looks_up(force_refresh)
    THEN get(CM, _generate_cart_hash(cart_items), now).cm
    ELSE CM

\* C28 as stated: when the generation call fails, the response cannot be
\* parsed or is structurally invalid, or every candidate is filtered out,
\* get_recommendations returns None, performs no cache set and leaves the
\* stored entries and their timestamps as they were before the call.
C28_FailureLeavesEntries ==
    [][(CallStep /\ CallsApi /\ FailedGeneration(last'.env, catalog))
       => /\ last'.ret = <<>>
          /\ last'.stored = <<>>
          /\ UNCHANGED Entries]_vars

\* C28, amended: when the generation call fails, the response cannot be
\* parsed or is structurally invalid, or every candidate is filtered out,
\* get_recommendations returns None and performs no cache set: the stored
\* entries are those the lookup left, which are the entries before the call
\* except for an expired entry of the cart, which the lookup of a call without
\* force_refresh removes; under force_refresh no entry changes, and a
\* previously cached entry for the same cart keeps its value and timestamp.
C28_FailureStoresNothing ==
    [][(CallStep /\ CallsApi /\ FailedGeneration(last'.env, catalog))
       => /\ last'.ret = <<>>
          /\ last'.stored = <<>>
          /\ cache' = AfterLookup(last'.cart_items, last'.force_refresh).cache
          /\ timestamps' = AfterLookup(last'.cart_items, last'.force_refresh).timestamps
          /\ \A i \in DOMAIN cache :
                (cache[i].key # _generate_cart_hash(last'.cart_items)
                    \/ ~is_expired(CM, cache[i].key, now))
                => /\ \E j \in DOMAIN cache' : cache'[j] = cache[i]
                   /\ timestamps'[cache[i].key] = timestamps[cache[i].key]
          /\ last'.force_refresh => UNCHANGED Entries]_vars

\* A failed call with force_refresh for the cart whose entry, written by the
\* earlier call, is still stored
C28_Witness ==
    /\ last.op = "get_recommendations"
    /\ last.force_refresh
    /\ last.api.attempts > 0
    /\ last.ret = <<>>
    /\ last.cart_items = <<ItemA>>
    /\ Keys(cache) = {_generate_cart_hash(<<ItemA>>)}
    /\ cache[1].value.source = "api"
    /\ now > 0

\* C29: every result get_recommendations returns and every cache entry it
\* writes holds at least one recommendation; when the filter rejects every
\* candidate the call returns None, not a result with an empty list.
C29_ResultsHoldARecommendation ==
    /\ \A i \in DOMAIN cache : Len(cache[i].value.recommendations) >= 1
    /\ last.op = "get_recommendations"
       => /\ last.ret # <<>> => Len(last.ret[1].recommendations) >= 1
          /\ last.stored # <<>> => Len(last.stored[1].recommendations) >= 1
          /\ (/\ last.api.returned
              /\ validate_recommendations(last.env.text)
              /\ LET f == _filter_prescription_products(
                              last.env.text.recommendations, catalog, last.env.db)
                 IN ~f.raised /\ f.filtered = <<>>)
             => last.ret = <<>> /\ last.stored = <<>>

\* The service answered with one valid recommendation, the products table
\* lists it as prescription-only, and the call returned None.
C29_Witness ==
    /\ last.op = "get_recommendations"
    /\ last.api.returned
    /\ last.env.text = JsonText(<<Rec(Almax)>>)
    /\ last.env.db = "ok"
    /\ [name |-> Almax, requires_prescription |-> 1] \in catalog
    /\ prescription_filtered >= 1
    /\ last.ret = <<>>

\* C30: with force_refresh, get_recommendations makes no cache lookup (hits,
\* misses, expirations and the client's cache_hits stay), calls the
\* generation service whether or not a fresh entry is stored for the cart,
\* and on success returns a result with source "api" and writes it as the
\* cart's entry, with the time of the call, over the entry that was there.
C30_ForceRefreshBypassesCache ==
    [][(CallStep /\ last'.force_refresh /\ last'.cart_items # <<>>)
       => /\ ~last'.looked_up
          /\ UNCHANGED <<hits, misses, expirations, cache_hits>>
          /\ last'.attempts >= 1
          /\ last'.ret # <<>>
             => LET cart_hash == _generate_cart_hash(last'.cart_items)
                IN /\ last'.ret[1].source = "api"
                   /\ last'.ret[1].timestamp = now
                   /\ last'.stored = last'.ret
                   /\ cart_hash \in Keys(cache')
                   /\ ValueOf(cache', cart_hash) = last'.ret[1]
                   /\ cache'[Len(cache')].key = cart_hash
                   /\ timestamps'[cart_hash] = now
                   /\ Cardinality({i \in DOMAIN cache' : cache'[i].key = cart_hash}) = 1]_vars

\* The second call, with force_refresh at time 1, has replaced the entry a
\* first call wrote at time 0, which was still fresh.
C30_Witness ==
    /\ Called
    /\ last.force_refresh
    /\ last.ret # <<>>
    /\ last.ret[1].source = "api"
    /\ last.ret[1].timestamp = 1
    /\ now = 1
    /\ now <= ttl
    /\ Len(cache) = 1
    /\ timestamps[cache[1].key] = 1
    /\ api_calls = 2
    /\ api_errors = 0
    /\ misses = 1
    /\ hits = 0
    /\ cache_hits = 0
    /\ evictions = 0
    /\ expirations = 0
    /\ \E k \in DOMAIN written : k = cache[1].key

=============================================================================
